---- MODULE Spec2Model ----
(***************************************************************************)
(* Recurring-event resolver of the calendar service and the next-run-date  *)
(* projector of the submit handler.                                        *)
(*                                                                         *)
(* Text is a sequence of lines; a line is [name, tzid, value] for          *)
(* NAME[;TZID=tzid]:VALUE.  A string is a sequence of tokens.  Time is in  *)
(* minutes; a calendar date is a day number, day 0 being a Monday.  Zones  *)
(* have a fixed offset over the modelled weeks.                            *)
(***************************************************************************)
EXTENDS Integers, Sequences, FiniteSets, TLC

\* ------------------------------------------------------------------ bounds
\* Largest number of VEVENT blocks in one calendar text.
MaxBlocks == 2
\* Last calendar day the projector's cursor is followed to.
MaxDay == 70

\* getCalendar calls followed.
MaxCalls == 3

\* --------------------------------------------------------- program constants
DefaultDeadlineOffset == 2
DisplayHour == 12
OccurrenceCount == 5
DisplayLimit == 50

MinutesPerDay == 24 * 60

\* ------------------------------------------------------------------ strings
Digits == <<"0", "1", "2", "3", "4", "5", "6", "7", "8", "9">>

IsDigit(c) == \E d \in 1..Len(Digits) : Digits[d] = c

DigitVal(c) == (CHOOSE d \in 1..Len(Digits) : Digits[d] = c) - 1

\* Number of leading digit tokens of s.
RECURSIVE LeadingDigits(_)
LeadingDigits(s) ==
    IF s = <<>> \/ ~IsDigit(Head(s)) THEN 0 ELSE 1 + LeadingDigits(Tail(s))

RECURSIVE DigitsToNat(_, _)
DigitsToNat(s, acc) ==
    IF s = <<>> THEN acc ELSE DigitsToNat(Tail(s), 10 * acc + DigitVal(Head(s)))

\* parseInt(value): the leading digits as a number; <<>> for NaN.
parseInt(s) ==
    LET n == LeadingDigits(s)
    IN  IF n = 0 THEN <<>> ELSE <<DigitsToNat(SubSeq(s, 1, n), 0)>>

\* First index at which sub occurs in s, 0 when it does not.
IndexOf(s, sub) ==
    LET hits == {k \in 1..(Len(s) - Len(sub) + 1) : SubSeq(s, k, k + Len(sub) - 1) = sub}
    IN  IF hits = {} THEN 0 ELSE CHOOSE k \in hits : \A j \in hits : k <= j

\* String.prototype.includes
Includes(s, sub) == sub = <<>> \/ IndexOf(s, sub) > 0

Delimiter == <<"-", "-">>

\* uid.split('--')[0]
SplitFirst(s, sep) ==
    LET k == IndexOf(s, sep) IN IF k = 0 THEN s ELSE SubSeq(s, 1, k - 1)

\* value.split(','): the pieces of s between the tokens equal to sep.
RECURSIVE SplitOn(_, _)
SplitOn(s, sep) ==
    LET k == IndexOf(s, <<sep>>)
    IN  IF k = 0 THEN <<s>>
        ELSE <<SubSeq(s, 1, k - 1)>> \o SplitOn(SubSeq(s, k + 1, Len(s)), sep)

\* rule.match(/BYDAY=([^;]+)/): the capture group as <<capture>>, <<>> when
\* there is no match.
RECURSIVE MatchByday(_)
MatchByday(s) ==
    LET k == IndexOf(s, <<"BYDAY=">>)
    IN  IF k = 0 THEN <<>>
        ELSE LET rest == SubSeq(s, k + 1, Len(s))
                 stop == IndexOf(rest, <<";">>)
                 cap  == IF stop = 0 THEN rest ELSE SubSeq(rest, 1, stop - 1)
             IN  IF cap # <<>> THEN <<cap>> ELSE MatchByday(rest)

\* --------------------------------------------------------------------- time
DefaultZone == "America/New_York"
UTC == "UTC"

\* Offset from UTC in minutes (standard time).
ZoneOffset(zone) ==
    IF zone = UTC THEN 0
    ELSE IF zone = DefaultZone THEN 0 - 5 * 60
    ELSE 0

\* A DateTime is [ts |-> instant in minutes, zone |-> zone name, valid |-> flag];
\* the operators below are used on valid values.
Local(dt) == dt.ts + ZoneOffset(dt.zone)
DayOf(dt) == Local(dt) \div MinutesPerDay
HourOf(dt) == (Local(dt) % MinutesPerDay) \div 60
MinuteOf(dt) == Local(dt) % 60

\* Luxon weekday of a day number and of a DateTime: 1 = Monday .. 7 = Sunday.
WeekdayOfDay(d) == (d % 7) + 1
Weekday(dt) == WeekdayOfDay(DayOf(dt))

\* DateTime.fromObject({day, hour, minute}, {zone})
FromObject(day, hour, minute, zone) ==
    [ts |-> day * MinutesPerDay + hour * 60 + minute - ZoneOffset(zone),
     zone |-> zone, valid |-> TRUE]

\* An invalid DateTime (its numeric value is NaN).
Invalid(zone) == [ts |-> 0, zone |-> zone, valid |-> FALSE]

\* DateTime.now().setZone(zone)
NowIn(nowTs, zone) == [ts |-> nowTs, zone |-> zone, valid |-> TRUE]

\* a < b and a > b on DateTimes: a comparison with NaN is false.
Before(a, b) == a.valid /\ b.valid /\ a.ts < b.ts
After(a, b) == a.valid /\ b.valid /\ a.ts > b.ts

SetZone(dt, zone) == [dt EXCEPT !.zone = zone]
StartOfDay(dt) == FromObject(DayOf(dt), 0, 0, dt.zone)
PlusDays(dt, n) == FromObject(DayOf(dt) + n, HourOf(dt), MinuteOf(dt), dt.zone)
SetTime(dt, hour, minute) == FromObject(DayOf(dt), hour, minute, dt.zone)

\* dt.toISO(): local date and time with the zone's offset.
ToISO(dt) ==
    IF dt.valid
    THEN [day |-> DayOf(dt), hour |-> HourOf(dt), minute |-> MinuteOf(dt),
          offset |-> ZoneOffset(dt.zone), valid |-> TRUE]
    ELSE [day |-> 0, hour |-> 0, minute |-> 0, offset |-> 0, valid |-> FALSE]

\* DateTime.fromISO(iso).setZone(zone)
FromISO(iso, zone) ==
    IF iso.valid
    THEN [ts |-> iso.day * MinutesPerDay + iso.hour * 60 + iso.minute - iso.offset,
          zone |-> zone, valid |-> TRUE]
    ELSE Invalid(zone)

\* ------------------------------------------------------------ map helpers
\* A Map is a sequence of [key, value] entries in insertion order.
MapHas(m, k) == \E j \in 1..Len(m) : m[j].key = k

MapGet(m, k) ==
    IF MapHas(m, k) THEN <<m[CHOOSE j \in 1..Len(m) : m[j].key = k].value>> ELSE <<>>

MapSet(m, k, v) ==
    IF MapHas(m, k)
    THEN [j \in 1..Len(m) |-> IF m[j].key = k THEN [key |-> k, value |-> v] ELSE m[j]]
    ELSE Append(m, [key |-> k, value |-> v])

MapValues(m) == [j \in 1..Len(m) |-> m[j].value]

\* JavaScript truthiness of an optional string: present and not empty.
Truthy(opt) == opt # <<>> /\ opt[1] # <<>>

\* ------------------------------------------------------------------- parser
BeginLine == [name |-> "BEGIN", tzid |-> <<>>, value |-> <<"VEVENT">>]
EndLine == [name |-> "END", tzid |-> <<>>, value |-> <<"VEVENT">>]

\* extractTimezone(line)
extractTimezone(line) ==
    IF line.tzid # <<>> THEN line.tzid[1]
    ELSE IF line.value # <<>> /\ line.value[Len(line.value)] = "Z" THEN UTC
    ELSE DefaultZone

\* icsDate.replace('Z', ''): the value without its first "Z".
RemoveFirstZ(s) ==
    LET k == IndexOf(s, <<"Z">>)
    IN  IF k = 0 THEN s ELSE SubSeq(s, 1, k - 1) \o SubSeq(s, k + 1, Len(s))

\* Faulty variant: the value is read in the zone handed in, also when it ends
\* with Z.
parseIcsDateInZone(icsDate, timezone, nowTs) ==
    IF Len(icsDate) = 2
    THEN LET day == parseInt(icsDate)
         IN  IF day = <<>> THEN NowIn(nowTs, timezone)
             ELSE FromObject(day[1], 0, 0, timezone)
    ELSE IF Includes(icsDate, <<"T">>)
    THEN LET dateTimeParts == SplitOn(RemoveFirstZ(icsDate), "T")
             datePart == dateTimeParts[1]
             timePart == IF Len(dateTimeParts) > 1 /\ dateTimeParts[2] # <<>>
                         THEN dateTimeParts[2] ELSE <<"0", "0", "0", "0">>
             day == parseInt(SubSeq(datePart, 1, 2))
             hour == parseInt(SubSeq(timePart, 1, 2))
             minute == parseInt(SubSeq(timePart, 3, 4))
         IN  IF day = <<>> \/ hour = <<>> \/ minute = <<>> THEN NowIn(nowTs, timezone)
             ELSE FromObject(day[1], hour[1], minute[1], timezone)
    ELSE Invalid(timezone)

\* parseIcsDate(icsDate, timezone) at instant nowTs.  The date part of a value
\* is a two-digit day number, the time part is HHMM.  fromObject throws on a
\* NaN unit and the catch block returns the current time; a value of neither
\* form goes to fromISO, which yields an invalid DateTime.
parseIcsDate(icsDate, timezone, nowTs) ==
    IF Len(icsDate) = 2
    THEN LET day == parseInt(icsDate)
         IN  IF day = <<>> THEN NowIn(nowTs, timezone)
             ELSE FromObject(day[1], 0, 0, timezone)
    ELSE IF Includes(icsDate, <<"T">>)
    THEN LET dateTimeParts == SplitOn(RemoveFirstZ(icsDate), "T")
             datePart == dateTimeParts[1]
             timePart == IF Len(dateTimeParts) > 1 /\ dateTimeParts[2] # <<>>
                         THEN dateTimeParts[2] ELSE <<"0", "0", "0", "0">>
             day == parseInt(SubSeq(datePart, 1, 2))
             hour == parseInt(SubSeq(timePart, 1, 2))
             minute == parseInt(SubSeq(timePart, 3, 4))
             finalZone == IF icsDate[Len(icsDate)] = "Z" THEN UTC ELSE timezone
         IN  IF day = <<>> \/ hour = <<>> \/ minute = <<>> THEN NowIn(nowTs, timezone)
             ELSE FromObject(day[1], hour[1], minute[1], finalZone)
    ELSE Invalid(timezone)

\* currentEvent = {}
EmptyEvent ==
    [startDate |-> <<>>, startTimezone |-> <<>>, endDate |-> <<>>, endTimezone |-> <<>>,
     summary |-> <<>>, uid |-> <<>>, rrule |-> <<>>, deadlineOffset |-> <<>>,
     other |-> FALSE]

\* X-PUB-DEADLINE-OFFSET: parseInt(value) || 0
ParseDeadlineOffset(value) ==
    LET n == parseInt(value) IN IF n = <<>> THEN 0 ELSE n[1]

\* The property branch of the line scan: currentEvent after an inner line.
SetProperty(ev, line, nowTs) ==
    IF line.name = "DTSTART"
    THEN [ev EXCEPT !.startDate = <<parseIcsDate(line.value, extractTimezone(line), nowTs)>>,
                    !.startTimezone = <<extractTimezone(line)>>]
    ELSE IF line.name = "DTEND"
    THEN [ev EXCEPT !.endDate = <<parseIcsDate(line.value, extractTimezone(line), nowTs)>>,
                    !.endTimezone = <<extractTimezone(line)>>]
    ELSE IF line.tzid # <<>> THEN [ev EXCEPT !.other = TRUE]
    ELSE IF line.name = "SUMMARY" THEN [ev EXCEPT !.summary = <<line.value>>]
    ELSE IF line.name = "UID" THEN [ev EXCEPT !.uid = <<line.value>>]
    ELSE IF line.name = "RRULE" THEN [ev EXCEPT !.rrule = <<line.value>>]
    ELSE IF line.name = "X-PUB-DEADLINE-OFFSET"
    THEN [ev EXCEPT !.deadlineOffset = <<ParseDeadlineOffset(line.value)>>]
    ELSE [ev EXCEPT !.other = TRUE]

\* Faulty variant: a block without a property is handed on as well.
HasKeysAlways(ev) == TRUE

\* Object.keys(currentEvent).length > 0
HasKeys(ev) == ev # EmptyEvent

\* icsContent.split('BEGIN:VEVENT'): the lines between the BEGIN lines.
RECURSIVE SplitBlocks(_)
SplitBlocks(text) ==
    LET k == IndexOf(text, <<BeginLine>>)
    IN  IF k = 0 THEN <<text>>
        ELSE <<SubSeq(text, 1, k - 1)>> \o SplitBlocks(SubSeq(text, k + 1, Len(text)))

\* block.match(/NAME:([^\r\n]+)/): the value of the first NAME line of the
\* block that has one.
FirstValue(block, name) ==
    LET hits == {j \in 1..Len(block) : block[j].name = name /\ block[j].value # <<>>}
    IN  IF hits = {} THEN <<>>
        ELSE <<block[CHOOSE j \in hits : \A h \in hits : j <= h].value>>

\* Faulty variant: the rule of the first block of a base UID is kept.
RECURSIVE BuildRruleMapFirst(_, _)
BuildRruleMapFirst(blocks, map) ==
    IF blocks = <<>> THEN map
    ELSE LET uidMatch == FirstValue(Head(blocks), "UID")
             rruleMatch == FirstValue(Head(blocks), "RRULE")
         IN  BuildRruleMapFirst(Tail(blocks),
                 IF /\ uidMatch # <<>> /\ rruleMatch # <<>>
                    /\ ~MapHas(map, SplitFirst(uidMatch[1], Delimiter))
                 THEN MapSet(map, SplitFirst(uidMatch[1], Delimiter), rruleMatch[1])
                 ELSE map)

\* The first pass of parseIcsContent: base UID -> rule of the last block that
\* has both.
RECURSIVE BuildRruleMap(_, _)
BuildRruleMap(blocks, map) ==
    IF blocks = <<>> THEN map
    ELSE LET uidMatch == FirstValue(Head(blocks), "UID")
             rruleMatch == FirstValue(Head(blocks), "RRULE")
         IN  BuildRruleMap(Tail(blocks),
                 IF uidMatch # <<>> /\ rruleMatch # <<>>
                 THEN MapSet(map, SplitFirst(uidMatch[1], Delimiter), rruleMatch[1])
                 ELSE map)

\* Faulty variant: the unique id is not cut at the delimiter.
BaseUidWhole(ev) == IF Truthy(ev.uid) THEN ev.uid[1] ELSE <<>>

\* currentEvent.uid ? currentEvent.uid.split('--')[0] : ''
BaseUid(ev) == IF Truthy(ev.uid) THEN SplitFirst(ev.uid[1], Delimiter) ELSE <<>>

\* rruleMap.get(currentEvent.uid) || rruleMap.get(baseUid)
RawRrule(map, ev) ==
    LET exact == IF ev.uid = <<>> THEN <<>> ELSE MapGet(map, ev.uid[1])
    IN  IF Truthy(exact) THEN exact ELSE MapGet(map, BaseUid(ev))

\* Faulty variant: only a rule of the record's own makes it recurring.
IsRecurringOwnRuleOnly(map, ev) == Truthy(ev.rrule)

\* rawRrule || currentEvent.rrule
IsRecurringEvent(map, ev) == Truthy(RawRrule(map, ev)) \/ Truthy(ev.rrule)

\* ----------------------------------------------------------------- resolver
dayNames == <<"SU", "MO", "TU", "WE", "TH", "FR", "SA">>

\* dayNames.indexOf(day): 0..6, or -1.
DayIndex(day) ==
    IF \E j \in 1..Len(dayNames) : <<dayNames[j]>> = day
    THEN (CHOOSE j \in 1..Len(dayNames) : <<dayNames[j]>> = day) - 1
    ELSE 0 - 1

\* Faulty variant: the Luxon weekday is used as the index as it is.
DayNameOfLuxon(dt) == dayNames[Weekday(dt)]

\* dayNames[weekday === 7 ? 0 : weekday]
DayNameOf(dt) == dayNames[(IF Weekday(dt) = 7 THEN 0 ELSE Weekday(dt)) + 1]

\* `${hour}:${minute}` of a start time.
TimeKey(dt) == IF dt.valid THEN <<HourOf(dt), MinuteOf(dt)>> ELSE <<0 - 1, 0 - 1>>

ToMillis(dt) == IF dt.valid THEN dt.ts ELSE 0 - 1

DayPatternKey(baseUid, dayIndex, timeKey) ==
    [kind |-> "day", id |-> baseUid, day |-> dayIndex, time |-> timeKey]

\* Faulty variant: the key of a one-time event is cut at the delimiter.
OneTimeKeyBase(uid, start) ==
    [kind |-> "once",
     id |-> IF uid = <<>> THEN <<"undefined">> ELSE SplitFirst(uid[1], Delimiter),
     day |-> 0 - 1, time |-> <<ToMillis(start)>>]

\* `${currentEvent.uid}_${eventStartTime.toMillis()}`
OneTimeKey(uid, start) ==
    [kind |-> "once", id |-> IF uid = <<>> THEN <<"undefined">> ELSE uid[1],
     day |-> 0 - 1, time |-> <<ToMillis(start)>>]

EventTimezone(ev) ==
    IF ev.startTimezone # <<>> THEN ev.startTimezone[1] ELSE DefaultZone

\* Faulty variant: the same weekday stays on today.
DaysToAddSameDay(eventDayOfWeek, todayDayOfWeek) ==
    (eventDayOfWeek - todayDayOfWeek + 7) % 7

\* Days from today to the next date with the start's weekday; the same weekday
\* moves to next week.
DaysToAdd(eventDayOfWeek, todayDayOfWeek) ==
    LET d == (eventDayOfWeek - todayDayOfWeek + 7) % 7
    IN  IF d = 0 THEN 7 ELSE d

\* The stale-date advancement of processEvent: [start, end] of the event.
AdjustedTimes(ev, isRecurringEvent, today) ==
    LET eventStartTime == ev.startDate[1]
        eventEndTime == IF ev.endDate # <<>> THEN ev.endDate[1] ELSE eventStartTime
        todayInEventTz == SetZone(today, EventTimezone(ev))
    IN  IF isRecurringEvent /\ Before(eventStartTime, todayInEventTz)
        THEN LET daysToAdd == DaysToAdd(Weekday(eventStartTime), Weekday(todayInEventTz))
                 nextOccurrence ==
                     SetTime(PlusDays(todayInEventTz, daysToAdd),
                             HourOf(eventStartTime), MinuteOf(eventStartTime))
                 duration == eventEndTime.ts - eventStartTime.ts
             IN  [start |-> nextOccurrence,
                  end |-> [nextOccurrence EXCEPT !.ts = @ + duration]]
        ELSE [start |-> eventStartTime, end |-> eventEndTime]

\* Faulty variant: the BYDAY value is taken whole, not split at the commas.
DaysInRuleUnsplit(rawRrule, eventStartTime) ==
    LET bydayMatch == IF Truthy(rawRrule) /\ Includes(rawRrule[1], <<"BYDAY=">>)
                      THEN MatchByday(rawRrule[1]) ELSE <<>>
    IN  IF bydayMatch # <<>> THEN <<bydayMatch[1]>>
        ELSE IF eventStartTime.valid THEN <<<<DayNameOf(eventStartTime)>>>>
        ELSE <<<<>>>>

\* The days of the governing rule, or the start's own weekday.
DaysInRule(rawRrule, eventStartTime) ==
    LET bydayMatch == IF Truthy(rawRrule) /\ Includes(rawRrule[1], <<"BYDAY=">>)
                      THEN MatchByday(rawRrule[1]) ELSE <<>>
        daysInRule == IF bydayMatch # <<>> THEN SplitOn(bydayMatch[1], ",") ELSE <<>>
    IN  IF daysInRule # <<>> THEN daysInRule
        ELSE IF eventStartTime.valid THEN <<<<DayNameOf(eventStartTime)>>>>
        ELSE <<<<>>>>

SingleDayRrule(day) == <<"RRULE:", "FREQ=WEEKLY", ";", "BYDAY=">> \o day

\* The parsedEvent object of processEvent.
ParsedEvent(ev, times, recurrence, isRecurring) ==
    [summary |-> IF Truthy(ev.summary) THEN ev.summary[1] ELSE <<"Untitled Event">>,
     start |-> [dateTime |-> ToISO(times.start), timeZone |-> EventTimezone(ev)],
     end |-> [dateTime |-> ToISO(times.end),
              timeZone |-> IF ev.endTimezone # <<>> THEN ev.endTimezone[1]
                           ELSE EventTimezone(ev)],
     recurrence |-> recurrence,
     originalUid |-> ev.uid,
     isRecurring |-> isRecurring,
     deadlineOffset |-> IF ev.deadlineOffset # <<>> THEN ev.deadlineOffset[1]
                        ELSE DefaultDeadlineOffset]

\* Faulty variant: a record whose key is taken removes the stored event.
SetOrDelete(map, key, value) ==
    IF ~MapHas(map, key) THEN MapSet(map, key, value)
    ELSE SelectSeq(map, LAMBDA e : e.key # key)

\* Faulty variant: the later record replaces the stored one.
SetAlways(map, key, value) == MapSet(map, key, value)

\* eventsByDayPattern.set(key, value) unless the key is there already.
SetIfAbsent(map, key, value) ==
    IF ~MapHas(map, key) THEN MapSet(map, key, value) ELSE map

\* The loop over daysInRule: one event per day, unless its key is taken.
RECURSIVE StoreDays(_, _, _, _, _)
StoreDays(days, ev, times, baseUid, map) ==
    IF days = <<>> THEN map
    ELSE LET day == Head(days)
             dayIndex == DayIndex(day)
         IN  StoreDays(Tail(days), ev, times, baseUid,
                 IF dayIndex = 0 - 1 THEN map
                 ELSE SetIfAbsent(map,
                          DayPatternKey(baseUid, dayIndex, TimeKey(times.start)),
                          ParsedEvent(ev, times, <<SingleDayRrule(day)>>, TRUE)))

\* processEvent throws a TypeError on a record without a start.
ProcessEventThrows(ev) == ev.startDate = <<>>

\* processEvent(currentEvent, rawRrule, isRecurringEvent, today, eventsByDayPattern):
\* the collection afterwards.
processEvent(ev, rawRrule, isRecurringEvent, today, map) ==
    LET times == AdjustedTimes(ev, isRecurringEvent, today)
    IN  IF isRecurringEvent
        THEN StoreDays(DaysInRule(rawRrule, times.start), ev, times, BaseUid(ev), map)
        ELSE SetIfAbsent(map, OneTimeKey(ev.uid, times.start),
                         ParsedEvent(ev, times, <<>>, FALSE))

\* The past-event filter of parseIcsContent for one-time records.
IsPastOneTime(ev, isRecurringEvent, today) ==
    /\ ~isRecurringEvent
    /\ ev.startDate # <<>>
    /\ Before(ev.startDate[1], SetZone(today, EventTimezone(ev)))

\* ---------------------------------------------------------------- projector
dayMapKeys == <<"MO", "TU", "WE", "TH", "FR", "SA", "SU">>

\* Object.keys(dayMap).find(key => dayMap[key] === weekday)
DayAbbr(weekday) == <<dayMapKeys[weekday]>>

\* Faulty variant: the filter keeps the events whose publication id is
\* selectedUuid.
RECURSIVE filteredEventsExact(_, _)
filteredEventsExact(calendarEvents, selectedUuid) ==
    IF calendarEvents = <<>> THEN <<>>
    ELSE LET event == Head(calendarEvents)
             keep == /\ Truthy(event.originalUid)
                     /\ SplitFirst(event.originalUid[1], Delimiter) = selectedUuid
         IN  (IF keep THEN <<event>> ELSE <<>>)
                 \o filteredEventsExact(Tail(calendarEvents), selectedUuid)

\* The handler's filter: events whose publication id contains selectedUuid.
RECURSIVE filteredEvents(_, _)
filteredEvents(calendarEvents, selectedUuid) ==
    IF calendarEvents = <<>> THEN <<>>
    ELSE LET event == Head(calendarEvents)
             keep == /\ Truthy(event.originalUid)
                     /\ Includes(SplitFirst(event.originalUid[1], Delimiter), selectedUuid)
         IN  (IF keep THEN <<event>> ELSE <<>>)
                 \o filteredEvents(Tail(calendarEvents), selectedUuid)

\* filteredEvents.slice(0, 50)
limitedEvents(events) ==
    SubSeq(events, 1, IF Len(events) < DisplayLimit THEN Len(events) ELSE DisplayLimit)

\* The BYDAY value of an event's descriptor, <<>> when it has none.
EventDay(event) ==
    IF event.recurrence # <<>> /\ event.recurrence[1] # <<>>
    THEN MatchByday(event.recurrence[1]) ELSE <<>>

\* The governing weekdays collected by events.forEach.
RecurringDays(events) ==
    {EventDay(events[j])[1] : j \in {k \in 1..Len(events) : EventDay(events[k]) # <<>>}}

\* The per-weekday deadline offsets collected by events.forEach: a later
\* event of the same weekday overwrites an earlier one.
RECURSIVE DayToDeadlineOffset(_, _)
DayToDeadlineOffset(events, map) ==
    IF events = <<>> THEN map
    ELSE DayToDeadlineOffset(Tail(events),
             IF EventDay(Head(events)) # <<>>
             THEN MapSet(map, EventDay(Head(events))[1], Head(events).deadlineOffset)
             ELSE map)

\* DateTime.max(a, b): the later one, the first when b is not comparable.
DateTimeMax(a, b) == IF After(b, a) THEN b ELSE a

\* Faulty variant: the cursor starts from the earliest start among the events.
StartCursorEarliest(events, nowTs) ==
    LET timezone == events[1].start.timeZone
        starts == {FromISO(events[j].start.dateTime, timezone) : j \in 1..Len(events)}
        valid == {d \in starts : d.valid}
        now == NowIn(nowTs, timezone)
    IN  IF valid = {} THEN StartOfDay(now)
        ELSE DateTimeMax(StartOfDay(now),
                 StartOfDay(CHOOSE d \in valid : \A e \in valid : d.ts <= e.ts))

\* The cursor's first value: today or the first event's start day.
StartCursor(events, nowTs) ==
    LET timezone == events[1].start.timeZone
        eventStartDate == FromISO(events[1].start.dateTime, timezone)
        now == NowIn(nowTs, timezone)
    IN  DateTimeMax(StartOfDay(now),
                    IF eventStartDate.valid THEN StartOfDay(eventStartDate)
                    ELSE eventStartDate)

\* Faulty variant: offsetValue || 2, which turns an offset of 0 into 2.
OffsetForFalsy(map, dayAbbr) ==
    IF MapGet(map, dayAbbr) # <<>> /\ MapGet(map, dayAbbr)[1] # 0
    THEN MapGet(map, dayAbbr)[1] ELSE DefaultDeadlineOffset

\* The offset applied on a weekday.
OffsetFor(map, dayAbbr) ==
    IF MapGet(map, dayAbbr) # <<>> THEN MapGet(map, dayAbbr)[1] ELSE DefaultDeadlineOffset

\* Faulty variant: the run date keeps the cursor's time of day.
RunDateAtCursor(currentDate) == currentDate

\* currentDate.set({ hour: 12, minute: 0, second: 0, millisecond: 0 })
RunDate(currentDate) == SetTime(currentDate, DisplayHour, 0)

SubmissionDate(runDate, deadlineOffset) == PlusDays(runDate, 0 - deadlineOffset)

\* Faulty variant: the deadline test is not strict.
AcceptsAtOrAfter(submissionDate, now) ==
    submissionDate.valid /\ now.valid /\ submissionDate.ts >= now.ts

\* if (submissionDate > now)
Accepts(submissionDate, now) == After(submissionDate, now)

\* while (count < 5)
LoopCondition(n) == n < OccurrenceCount

\* Faulty variant: the cursor moves on only past a day that was not accepted.
NextCursorAfterSkip(current, accepted) ==
    IF accepted THEN current ELSE PlusDays(current, 1)

\* Faulty variant: after an accepted day the cursor moves on by a week.
NextCursorWeekly(current, accepted) ==
    IF accepted THEN PlusDays(current, 7) ELSE PlusDays(current, 1)

\* currentDate = currentDate.plus({ days: 1 }), whether or not the day was
\* accepted.
NextCursor(current, accepted) == PlusDays(current, 1)

\* ------------------------------------------------------------------- inputs
Line(name, value) == [name |-> name, tzid |-> <<>>, value |-> value]

\* One VEVENT block; rule and offset are optional (<<>> when absent).
Block(uid, summary, start, rule, offset) ==
    <<BeginLine, Line("UID", uid), Line("SUMMARY", summary), Line("DTSTART", start)>>
        \o (IF rule = <<>> THEN <<>> ELSE <<Line("RRULE", rule[1])>>)
        \o (IF offset = <<>> THEN <<>> ELSE <<Line("X-PUB-DEADLINE-OFFSET", offset[1])>>)
        \o <<EndLine>>

UidA == <<"p", "1", "-", "-", "a">>
UidB == <<"p", "1", "-", "-", "b">>

\* Today is Tuesday, day 15, in the default zone.
LastMon2030 == <<"0", "7", "T", "2", "0", "3", "0">>
LastTue0900 == <<"0", "8", "T", "0", "9", "0", "0">>
Mon2030 == <<"1", "4", "T", "2", "0", "3", "0">>
Tue0900 == <<"1", "5", "T", "0", "9", "0", "0">>
Wed0900 == <<"1", "6", "T", "0", "9", "0", "0">>

Weekly == <<"FREQ=WEEKLY">>
WeeklyOn(days) == <<"FREQ=WEEKLY", ";", "BYDAY=">> \o days

Blocks ==
    { Block(UidA, <<"A">>, LastTue0900, <<WeeklyOn(<<"TU">>)>>, <<<<"0">>>>),
      Block(UidB, <<"B">>, LastTue0900, <<>>, <<>>),
      Block(UidA, <<"A">>, Wed0900, <<WeeklyOn(<<"MO", ",", "WE">>)>>, <<>>),
      Block(UidA, <<"A">>, LastMon2030,
            <<WeeklyOn(<<"MO", ",", "WE", ",", "FR">>)>>, <<<<"1">>>>),
      Block(UidA, <<"A">>, Tue0900, <<>>, <<>>),
      Block(UidB, <<"B">>, Mon2030, <<>>, <<>>),
      Block(UidB, <<"B">>, Wed0900, <<Weekly>>, <<<<"0">>>>),
      Block(UidA, <<"A">>, Tue0900, <<WeeklyOn(<<"TU">>)>>, <<<<"0">>>>) }

\* Records and lines beyond the plain ones.
UidC == <<"p", "1", "2", "-", "-", "c">>
Thu1400Z == <<"1", "7", "T", "1", "4", "0", "0", "Z">>
NoDay0900 == <<"x", "x", "T", "0", "9", "0", "0">>

\* A recurring record in UTC.
UtcBlock == Block(UidA, <<"Z">>, Thu1400Z, <<Weekly>>, <<>>)

\* A record with a unique id and no start.
NoStartBlock == <<BeginLine, Line("UID", UidA), Line("SUMMARY", <<"N">>), EndLine>>

\* A record whose start value has no day number.
BadStartBlock == Block(UidA, <<"X">>, NoDay0900, <<>>, <<>>)

\* A one-time record followed by a rule line outside every block.
TrailingRuleBlock ==
    Block(UidB, <<"B">>, Tue0900, <<>>, <<>>) \o <<Line("RRULE", WeeklyOn(<<"FR">>))>>

\* A unique id and a rule before the first block, then a one-time record.
LeadingRuleBlock ==
    <<Line("UID", UidB), Line("RRULE", WeeklyOn(<<"FR">>))>>
        \o Block(UidB, <<"B">>, Wed0900, <<>>, <<>>)

\* A one-time record of the base id of UidA at the start of a plain one.
TwinBlock == Block(UidB, <<"B">>, Tue0900, <<>>, <<>>)

\* A recurring record of another publication whose id contains "p1".
OtherPublicationBlock == Block(UidC, <<"C">>, Wed0900, <<WeeklyOn(<<"TH">>)>>, <<<<"1">>>>)

\* A record with a rule of its own and no unique id.
NoUidRuleBlock ==
    <<BeginLine, Line("SUMMARY", <<"R">>), Line("DTSTART", Wed0900),
      Line("RRULE", WeeklyOn(<<"MO", ",", "WE">>)), EndLine>>

\* A start line with a zone parameter.
ZonedLine(name, zone, value) == [name |-> name, tzid |-> <<zone>>, value |-> value]

Thu1400 == <<"1", "7", "T", "1", "4", "0", "0">>

\* One-time records whose start has a zone parameter: without and with a
\* trailing Z on the value.
TzidBlock ==
    <<BeginLine, Line("UID", UidB), Line("SUMMARY", <<"T">>),
      ZonedLine("DTSTART", UTC, Thu1400), EndLine>>
TzidZBlock ==
    <<BeginLine, Line("UID", UidB), Line("SUMMARY", <<"U">>),
      ZonedLine("DTSTART", DefaultZone, Thu1400Z),
      ZonedLine("DTEND", DefaultZone, Thu1400Z), EndLine>>

\* A block opened again before its END line, an END line before any block,
\* and a block without a property.
NestedBeginBlock ==
    <<BeginLine, Line("UID", UidA), Line("SUMMARY", <<"L">>), Line("DTSTART", Wed0900),
      BeginLine, Line("UID", UidB), Line("SUMMARY", <<"M">>), Line("DTSTART", Thu1400),
      EndLine>>
StrayEndBlock == <<EndLine>> \o Block(UidB, <<"B">>, Wed0900, <<>>, <<>>) \o <<EndLine>>
EmptyBlock == <<BeginLine, EndLine>>

\* A record that recurs weekly, without a weekday list, from last Sunday.
LastSun1000 == <<"1", "3", "T", "1", "0", "0", "0">>
SundayBlock == Block(UidB, <<"S">>, LastSun1000, <<Weekly>>, <<>>)

Probes ==
    {SundayBlock, UtcBlock, NoStartBlock, BadStartBlock, TrailingRuleBlock, LeadingRuleBlock,
     TwinBlock, OtherPublicationBlock, NoUidRuleBlock, TzidBlock, TzidZBlock,
     NestedBeginBlock, StrayEndBlock, EmptyBlock}

\* A probe alone, before a plain block and after one.
ProbeTexts ==
    Probes \cup {x \o b : x \in Probes, b \in Blocks}
           \cup {b \o x : x \in Probes, b \in Blocks}

RECURSIVE TextsOf(_)
TextsOf(n) ==
    IF n = 0 THEN {<<>>}
    ELSE LET shorter == TextsOf(n - 1)
         IN  shorter \cup {t \o b : t \in shorter, b \in Blocks}

\* The calendar texts: one to MaxBlocks plain blocks, and the probes.
Texts == {t \in TextsOf(MaxBlocks) : t # <<>>} \cup ProbeTexts

\* The instant of the run and the zone of the machine.
Environments ==
    { [clock |-> FromObject(15, 10, 0, DefaultZone).ts, zone |-> DefaultZone],
      [clock |-> FromObject(15, 10, 0, DefaultZone).ts, zone |-> UTC],
      [clock |-> FromObject(15, 12, 0, DefaultZone).ts, zone |-> DefaultZone],
      [clock |-> FromObject(15, 20, 0, DefaultZone).ts, zone |-> UTC] }

SelectedUuids == {<<"p", "1">>}

\* -------------------------------------------------------------------- cache
\* The calendar URLs asked for and the contents a URL serves over time.
Urls == {[host |-> "s3", name |-> "p1"], [host |-> "s3", name |-> "p2"]}
Contents == {"v1", "v2"}
Callers == {"c1", "c2"}

\* extractIcsName(url): the file name without its extension.
extractIcsName(url) == url.name

\* `calendar_${icsName}`
CacheKey(url) == <<"calendar_", extractIcsName(url)>>
CacheKeys == {CacheKey(u) : u \in Urls}

\* The calendarData object of fetchAndParseIcs.
CalendarData(url, content) ==
    [name |-> extractIcsName(url), url |-> url, content |-> content]

\* Faulty variant: the cached value is never taken.
CacheHitNever(cachedData) == FALSE

\* if (cachedData)
CacheHit(cachedData) == cachedData # <<>>

\* Faulty variant: whatever the fetch settled with is written to the cache.
CacheAfterFetchAlways(store, key, settled) == [store EXCEPT ![key] = settled]

\* Faulty variant: a result is cached only while the key has no entry.
CacheAfterFetchFirst(store, key, settled) ==
    IF settled # <<>> /\ store[key] = <<>> THEN [store EXCEPT ![key] = settled]
    ELSE store

\* The try block of getCalendar: cache.set is reached only when the awaited
\* fetchAndParseIcs resolved; settled is <<calendarData>> then, <<>> when it
\* rejected.
CacheAfterFetch(store, key, settled) ==
    IF settled # <<>> THEN [store EXCEPT ![key] = settled] ELSE store

\* A caller that is not inside getCalendar.
IdleCall ==
    [pc |-> "idle", url |-> <<>>, found |-> <<>>, fetched |-> 0, stored |-> <<>>,
     result |-> <<>>]

\* ------------------------------------------------------------- webhook gate
\* Client secrets, and the length of a hex SHA-256 digest.
ClientSecrets == {"k1", "k2"}
HexLength == 64

\* The environment of the process: each variable unset (<<>>) or set.
SecretEnvs ==
    [pricing : {<<>>, <<"k1">>}, timeline : {<<>>, <<"k2">>}, secret : {<<>>, <<"k1">>}]

\* this.intercomSecrets as the constructor builds it.
intercomSecrets(env) ==
    [pricing |-> env.pricing, timeline |-> env.timeline,
     default |-> IF env.secret # <<>> THEN env.secret ELSE env.pricing]

\* this.intercomSecrets[appId]: <<>> for undefined.
SecretOf(secrets, appId) ==
    IF appId \in DOMAIN secrets THEN secrets[appId] ELSE <<>>

\* getIntercomSecret(appId): <<secret>>, or <<>> when it throws.
getIntercomSecret(secrets, appId) ==
    IF SecretOf(secrets, appId) # <<>> THEN SecretOf(secrets, appId) ELSE secrets.default

\* determineIntercomApp(req)
determineIntercomApp(secrets, req) ==
    IF req.appHeader # <<>> /\ SecretOf(secrets, req.appHeader[1]) # <<>>
    THEN req.appHeader[1]
    ELSE IF req.appQuery # <<>> /\ SecretOf(secrets, req.appQuery[1]) # <<>>
    THEN req.appQuery[1]
    ELSE IF Includes(req.baseUrl, <<"/pricing">>) \/ Includes(req.baseUrl, <<"-pricing">>)
    THEN "pricing"
    ELSE IF Includes(req.baseUrl, <<"/timeline">>) \/ Includes(req.baseUrl, <<"-timeline">>)
    THEN "timeline"
    ELSE IF req.body # <<>> /\ req.body[1].app_id # <<>>
    THEN req.body[1].app_id[1]
    ELSE "default"

\* JSON.stringify(req.body): <<>> (undefined) for an undefined body.
Stringify(body) ==
    IF body = <<>> THEN <<>>
    ELSE <<<<"{">>
             \o (IF body[1].app_id # <<>> THEN <<"app_id", body[1].app_id[1]>> ELSE <<>>)
             \o <<"data", body[1].data, "}">>>>

\* A header value: its text, its length as a string and as a buffer.
\* createHmac('sha256', secret).update(data).digest('hex')
HexHmac(secret, data) ==
    [text |-> <<"hmac", secret>> \o data, chars |-> HexLength, bytes |-> HexLength]

\* Faulty variant: signatures of equal length are taken for equal.
CompareByLength(signature, expectedSignature) ==
    IF signature.chars # expectedSignature.chars THEN "differs" ELSE "equal"

\* signature.length !== expectedSignature.length || !crypto.timingSafeEqual(...):
\* timingSafeEqual throws on buffers of different byte length.
Compare(signature, expectedSignature) ==
    IF signature.chars # expectedSignature.chars THEN "differs"
    ELSE IF signature.bytes # expectedSignature.bytes THEN "throws"
    ELSE IF signature.text = expectedSignature.text THEN "equal"
    ELSE "differs"

\* What verifyIntercomCanvas does: the statuses it sends, its calls of next()
\* and req.intercomApp.
Sends(status) == [sent |-> <<status>>, next |-> 0, app |-> <<>>]
verifyIntercomCanvas(secrets, req, appId) ==
    IF req.signature = <<>> THEN Sends(401)
    ELSE LET targetApp == IF appId # <<>> THEN appId[1]
                          ELSE determineIntercomApp(secrets, req)
             clientSecret == getIntercomSecret(secrets, targetApp)
         IN  IF clientSecret = <<>> THEN Sends(500)
             ELSE IF Stringify(req.body) = <<>> THEN Sends(500)
             ELSE LET expectedSignature ==
                          HexHmac(clientSecret[1], Stringify(req.body)[1])
                      outcome == Compare(req.signature[1], expectedSignature)
                  IN  IF outcome = "throws" THEN Sends(500)
                      ELSE IF outcome = "differs" THEN Sends(401)
                      ELSE [sent |-> <<>>, next |-> 1, app |-> <<targetApp>>]

\* The requests the gate is given.
Bodies ==
    {<<>>} \cup {<<[app_id |-> a, data |-> "d1"]>> : a \in {<<>>, <<"timeline">>, <<"other">>}}
Signatures ==
    {<<>>,
     <<[text |-> <<"short">>, chars |-> 5, bytes |-> 5]>>,
     <<[text |-> <<"forged">>, chars |-> HexLength, bytes |-> HexLength]>>,
     <<[text |-> <<"wide">>, chars |-> HexLength, bytes |-> HexLength + 1]>>}
        \cup {<<HexHmac(k, Stringify(b)[1])>> : k \in ClientSecrets, b \in Bodies \ {<<>>}}
Requests ==
    [signature : Signatures,
     appHeader : {<<>>, <<"timeline">>},
     appQuery : {<<>>, <<"pricing">>},
     baseUrl : {<<"/api">>, <<"/api", "-pricing">>, <<"/api", "/timeline">>},
     body : Bodies]
AppIds == {<<>>, <<"pricing">>}

IdleGate ==
    [pc |-> "idle", secrets |-> intercomSecrets([pricing |-> <<>>, timeline |-> <<>>,
                                                 secret |-> <<>>]),
     req |-> <<>>, appId |-> <<>>, sent |-> <<>>, next |-> 0, app |-> <<>>]

\* -------------------------------------------------------------------- state
VARIABLES
    clock,              \* the current instant
    machineZone,        \* the zone of the process
    pc,                 \* "idle", "scan", "parsed", "walk", "done", "threw"
    text,               \* icsContent, as lines
    rruleMap,           \* base UID -> rule
    today,              \* DateTime.now().startOf('day')
    i,                  \* index of the next line
    currentEvent,       \* <<>> for null, else <<object>>
    inEvent,
    eventsByDayPattern,
    totalProcessed,
    futureEvents,
    pastEvents,
    parsedEvents,       \* the array parseIcsContent returns
    selected,           \* selectedUuid of the request
    events,             \* limitedEvents handed to the projector
    recurringDays,
    dayToDeadlineOffset,
    now,
    cursorStart,        \* the first value of currentDate
    currentDate,
    count,
    dates,
    response,           \* "none", "dates", "noEvents"
    cache,              \* this.cache: key -> <<>> or <<calendarData>>
    remote,             \* the content served for each URL
    callers,            \* the getCalendar call of each caller
    started,            \* getCalendar calls so far
    gate                \* the request at verifyIntercomCanvas and what it did

parseVars == <<text, rruleMap, today, i, currentEvent, inEvent, eventsByDayPattern,
               totalProcessed, futureEvents, pastEvents, parsedEvents>>
walkVars == <<selected, events, recurringDays, dayToDeadlineOffset, now, cursorStart,
              currentDate, count, dates, response>>
envVars == <<clock, machineZone>>
cacheVars == <<cache, remote, callers, started>>
gateVars == <<gate>>
vars == <<envVars, pc, parseVars, walkVars, cacheVars, gateVars>>

NoDate == Invalid(DefaultZone)

Init ==
    /\ \E env \in Environments : clock = env.clock /\ machineZone = env.zone
    /\ pc = "idle"
    /\ text = <<>>
    /\ rruleMap = <<>>
    /\ today = NoDate
    /\ i = 1
    /\ currentEvent = <<>>
    /\ inEvent = FALSE
    /\ eventsByDayPattern = <<>>
    /\ totalProcessed = 0
    /\ futureEvents = 0
    /\ pastEvents = 0
    /\ parsedEvents = <<>>
    /\ selected = <<>>
    /\ events = <<>>
    /\ recurringDays = {}
    /\ dayToDeadlineOffset = <<>>
    /\ now = NoDate
    /\ cursorStart = NoDate
    /\ currentDate = NoDate
    /\ count = 0
    /\ dates = <<>>
    /\ response = "none"
    /\ cache = [k \in CacheKeys |-> <<>>]
    /\ remote = [u \in Urls |-> "v1"]
    /\ callers = [c \in Callers |-> IdleCall]
    /\ started = 0
    /\ gate = IdleGate

\* parseIcsContent up to the line loop: the rule table and today.
ParseBegin ==
    /\ pc = "idle"
    /\ \E icsContent \in Texts :
        /\ text' = icsContent
        /\ rruleMap' = BuildRruleMap(SplitBlocks(icsContent), <<>>)
    /\ today' = StartOfDay(NowIn(clock, machineZone))
    /\ i' = 1
    /\ pc' = "scan"
    /\ UNCHANGED <<currentEvent, inEvent, eventsByDayPattern, totalProcessed,
                   futureEvents, pastEvents, parsedEvents>>
    /\ UNCHANGED <<envVars, walkVars, cacheVars, gateVars>>

\* END:VEVENT met inside a block: filter, then processEvent.
EndOfBlock ==
    IF currentEvent # <<>> /\ HasKeys(currentEvent[1])
    THEN LET ev == currentEvent[1]
             rawRrule == RawRrule(rruleMap, ev)
             isRecurringEvent == IsRecurringEvent(rruleMap, ev)
         IN  /\ totalProcessed' = totalProcessed + 1
             /\ IF IsPastOneTime(ev, isRecurringEvent, today)
                THEN /\ pastEvents' = pastEvents + 1
                     /\ UNCHANGED <<futureEvents, eventsByDayPattern, pc>>
                ELSE /\ futureEvents' = futureEvents + 1
                     /\ UNCHANGED pastEvents
                     /\ IF ProcessEventThrows(ev)
                        THEN pc' = "threw" /\ UNCHANGED eventsByDayPattern
                        ELSE /\ eventsByDayPattern' =
                                    processEvent(ev, rawRrule, isRecurringEvent, today,
                                                 eventsByDayPattern)
                             /\ UNCHANGED pc
    ELSE UNCHANGED <<totalProcessed, futureEvents, pastEvents, eventsByDayPattern, pc>>

\* One iteration of the line loop of parseIcsContent.
ScanLine ==
    /\ pc = "scan"
    /\ i <= Len(text)
    /\ LET line == text[i]
       IN  IF line = BeginLine
           THEN /\ inEvent' = TRUE
                /\ currentEvent' = <<EmptyEvent>>
                /\ UNCHANGED <<totalProcessed, futureEvents, pastEvents,
                               eventsByDayPattern, pc>>
           ELSE IF line = EndLine /\ inEvent
           THEN /\ EndOfBlock
                /\ currentEvent' = <<>>
                /\ inEvent' = FALSE
           ELSE IF inEvent
           THEN /\ currentEvent' = <<SetProperty(currentEvent[1], line, clock)>>
                /\ UNCHANGED <<inEvent, totalProcessed, futureEvents, pastEvents,
                               eventsByDayPattern, pc>>
           ELSE UNCHANGED <<inEvent, currentEvent, totalProcessed, futureEvents,
                            pastEvents, eventsByDayPattern, pc>>
    /\ i' = i + 1
    /\ UNCHANGED <<text, rruleMap, today, parsedEvents>>
    /\ UNCHANGED <<envVars, walkVars, cacheVars, gateVars>>

\* The end of parseIcsContent: the collection as an array.
ParseEnd ==
    /\ pc = "scan"
    /\ i > Len(text)
    /\ parsedEvents' = MapValues(eventsByDayPattern)
    /\ pc' = "parsed"
    /\ UNCHANGED <<text, rruleMap, today, i, currentEvent, inEvent, eventsByDayPattern,
                   totalProcessed, futureEvents, pastEvents>>
    /\ UNCHANGED <<envVars, walkVars, cacheVars, gateVars>>

\* The submit handler for a publication, up to the loop of
\* generateNext5FromEvents.
Submit ==
    /\ pc = "parsed"
    /\ \E selectedUuid \in SelectedUuids :
        LET limited == limitedEvents(filteredEvents(parsedEvents, selectedUuid))
        IN  /\ selected' = selectedUuid
            /\ events' = limited
            /\ IF limited = <<>>
               THEN /\ response' = "noEvents"
                    /\ pc' = "done"
                    /\ UNCHANGED <<recurringDays, dayToDeadlineOffset, now, cursorStart,
                                   currentDate, count, dates>>
               ELSE /\ recurringDays' = RecurringDays(limited)
                    /\ dayToDeadlineOffset' = DayToDeadlineOffset(limited, <<>>)
                    /\ now' = NowIn(clock, limited[1].start.timeZone)
                    /\ cursorStart' = StartCursor(limited, clock)
                    /\ currentDate' = StartCursor(limited, clock)
                    /\ count' = 0
                    /\ dates' = <<>>
                    /\ pc' = "walk"
                    /\ UNCHANGED response
    /\ UNCHANGED <<envVars, parseVars, cacheVars, gateVars>>

\* One iteration of while (count < 5).
WalkStep ==
    /\ pc = "walk"
    /\ LoopCondition(count)
    /\ DayOf(currentDate) < MaxDay
    /\ LET dayAbbr == DayAbbr(Weekday(currentDate))
           runDate == RunDate(currentDate)
           deadlineOffset == OffsetFor(dayToDeadlineOffset, dayAbbr)
           submissionDate == SubmissionDate(runDate, deadlineOffset)
           accepted == dayAbbr \in recurringDays /\ Accepts(submissionDate, now)
       IN  /\ IF accepted
              THEN /\ dates' = Append(dates, [runDate |-> runDate,
                                              submissionDate |-> submissionDate,
                                              timezone |-> now.zone,
                                              deadlineOffset |-> deadlineOffset])
                   /\ count' = count + 1
              ELSE UNCHANGED <<dates, count>>
           /\ currentDate' = NextCursor(currentDate, accepted)
    /\ UNCHANGED <<selected, events, recurringDays, dayToDeadlineOffset, now, cursorStart,
                   response, pc>>
    /\ UNCHANGED <<envVars, parseVars, cacheVars, gateVars>>

\* The loop ends and the dates are rendered.
WalkReturn ==
    /\ pc = "walk"
    /\ ~LoopCondition(count)
    /\ response' = "dates"
    /\ pc' = "done"
    /\ UNCHANGED <<selected, events, recurringDays, dayToDeadlineOffset, now, cursorStart,
                   currentDate, count, dates>>
    /\ UNCHANGED <<envVars, parseVars, cacheVars, gateVars>>

Next == ParseBegin \/ ScanLine \/ ParseEnd \/ Submit \/ WalkStep \/ WalkReturn

Spec == Init /\ [][Next]_vars

\* The handler runs to completion: no step that can be taken is postponed
\* forever.
FairSpec == Spec /\ WF_vars(Next)

\* ------------------------------------------------------------- getCalendar
restVars == <<envVars, pc, parseVars, walkVars, gateVars>>

\* getCalendar(icsUrl) up to the await: the cached value is returned, or the
\* fetch begins.
GetCalendar(c, icsUrl) ==
    /\ callers[c].pc = "idle"
    /\ started < MaxCalls
    /\ started' = started + 1
    /\ LET cachedData == cache[CacheKey(icsUrl)]
       IN  callers' = [callers EXCEPT ![c] =
               IF CacheHit(cachedData)
               THEN [IdleCall EXCEPT !.pc = "returned", !.url = <<icsUrl>>,
                                     !.found = cachedData, !.result = cachedData]
               ELSE [IdleCall EXCEPT !.pc = "fetching", !.url = <<icsUrl>>,
                                     !.found = cachedData]]
    /\ UNCHANGED <<cache, remote, restVars>>

\* fetchAndParseIcs resolves: the result is cached and returned.
FetchResolves(c) ==
    /\ callers[c].pc = "fetching"
    /\ LET icsUrl == callers[c].url[1]
           calendarData == CalendarData(icsUrl, remote[icsUrl])
       IN  /\ cache' = CacheAfterFetch(cache, CacheKey(icsUrl), <<calendarData>>)
           /\ callers' = [callers EXCEPT ![c].pc = "returned",
                                          ![c].fetched = @ + 1,
                                          ![c].stored = <<calendarData>>,
                                          ![c].result = <<calendarData>>]
    /\ UNCHANGED <<remote, started, restVars>>

\* fetchAndParseIcs rejects (the request or the parse failed): getCalendar
\* rethrows and caches nothing.
FetchRejects(c) ==
    /\ callers[c].pc = "fetching"
    /\ callers' = [callers EXCEPT ![c].pc = "failed", ![c].fetched = @ + 1]
    /\ cache' = CacheAfterFetch(cache, CacheKey(callers[c].url[1]), <<>>)
    /\ UNCHANGED <<remote, started, restVars>>

\* The caller has its answer and may call again.
CallEnds(c) ==
    /\ callers[c].pc \in {"returned", "failed"}
    /\ callers' = [callers EXCEPT ![c] = IdleCall]
    /\ UNCHANGED <<cache, remote, started, restVars>>

\* An entry reaches its time to live (stdTTL) and is gone.
Expire(key) ==
    /\ cache[key] # <<>>
    /\ cache' = [cache EXCEPT ![key] = <<>>]
    /\ UNCHANGED <<remote, callers, started, restVars>>

\* clearCalendarCache(icsUrl)
ClearCalendarCache(icsUrl) ==
    /\ cache[CacheKey(icsUrl)] # <<>>
    /\ cache' = [cache EXCEPT ![CacheKey(icsUrl)] = <<>>]
    /\ UNCHANGED <<remote, callers, started, restVars>>

\* The content behind a URL changes.
RemoteChanges(icsUrl) ==
    /\ remote[icsUrl] = "v1"
    /\ remote' = [remote EXCEPT ![icsUrl] = "v2"]
    /\ UNCHANGED <<cache, callers, started, restVars>>

CacheNext ==
    \/ \E c \in Callers, u \in Urls : GetCalendar(c, u)
    \/ \E c \in Callers : FetchResolves(c)
    \/ \E c \in Callers : FetchRejects(c)
    \/ \E c \in Callers : CallEnds(c)
    \/ \E k \in CacheKeys : Expire(k)
    \/ \E u \in Urls : ClearCalendarCache(u)
    \/ \E u \in Urls : RemoteChanges(u)

CacheInit == Init /\ machineZone = DefaultZone /\ clock = FromObject(15, 10, 0, DefaultZone).ts

CacheSpec == CacheInit /\ [][CacheNext]_vars


\* A request reaches the middleware of a process with its secrets.
GateRequest(env, req, appId) ==
    /\ gate.pc = "idle"
    /\ gate' = [IdleGate EXCEPT !.pc = "received", !.secrets = intercomSecrets(env),
                                !.req = <<req>>, !.appId = appId]
    /\ UNCHANGED <<envVars, pc, parseVars, walkVars, cacheVars>>

\* verifyIntercomCanvas(req, res, next, appId)
Verify ==
    /\ gate.pc = "received"
    /\ LET did == verifyIntercomCanvas(gate.secrets, gate.req[1], gate.appId)
       IN  gate' = [gate EXCEPT !.pc = "done", !.sent = did.sent, !.next = did.next,
                                !.app = did.app]
    /\ UNCHANGED <<envVars, pc, parseVars, walkVars, cacheVars>>

GateNext ==
    \/ \E env \in SecretEnvs, req \in Requests, appId \in AppIds : GateRequest(env, req, appId)
    \/ Verify

GateSpec == CacheInit /\ [][GateNext]_vars

\* =================================================================== claims
\* The day d as the cursor of the projector's zone.
CursorOn(d) == FromObject(d, 0, 0, now.zone)

\* Day d is governed and its deadline is after now.
Acceptable(d) ==
    /\ DayAbbr(WeekdayOfDay(d)) \in recurringDays
    /\ SubmissionDate(RunDate(CursorOn(d)),
                      OffsetFor(dayToDeadlineOffset, DayAbbr(WeekdayOfDay(d)))).ts > now.ts

NoRecurringEvent == \A j \in 1..Len(events) : ~events[j].isRecurring

\* C1: the projector's loop ends for every non-empty list of events: while it
\* runs it either has its five occurrences or a day it will accept lies ahead
\* of the cursor (the loop has no other way out).
C1_ProjectorTerminates ==
    pc = "walk" =>
        \/ ~LoopCondition(count)
        \/ \E d \in DayOf(currentDate)..MaxDay : Acceptable(d)

\* C2: when the selected events hold no recurring event the projector leaves
\* its loop at once and returns the empty list.
C2_NoRecurrenceReturnsEmpty ==
    (pc = "walk" /\ NoRecurringEvent) => ~LoopCondition(count) /\ dates = <<>>

\* While some weekday is governed the cursor stays inside the horizon the
\* model follows.
HorizonSuffices ==
    (pc = "walk" /\ recurringDays # {}) => DayOf(currentDate) < MaxDay

\* C3: every occurrence the projector has collected has its submission
\* deadline strictly after now.
C3_DeadlineAfterNow ==
    \A j \in 1..Len(dates) : dates[j].submissionDate.ts > now.ts

\* C3 witness: five occurrences were returned, the first on today's date with
\* offset 0 (its deadline, today noon, is still ahead).
C3_Witness ==
    /\ pc = "done"
    /\ Len(dates) = OccurrenceCount
    /\ dates[1].deadlineOffset = 0
    /\ DayOf(dates[1].runDate) = DayOf(now)
    /\ dates[1].submissionDate = dates[1].runDate

\* C4: the occurrences collected so far are, in order, the first acceptable
\* days from the cursor's start: no acceptable day before the cursor is
\* missing and a passed-over day does not end the walk.
C4_FirstAcceptableDays ==
    pc \in {"walk", "done"} /\ events # <<>> =>
        LET acc == {d \in DayOf(cursorStart)..MaxDay : Acceptable(d)}
        IN  /\ \A j \in 1..Len(dates) :
                   /\ DayOf(dates[j].runDate) \in acc
                   /\ Cardinality({d \in acc : d < DayOf(dates[j].runDate)}) = j - 1
            /\ \A d \in acc : d < DayOf(currentDate) =>
                   \E j \in 1..Len(dates) : DayOf(dates[j].runDate) = d
            /\ pc = "done" => Len(dates) = OccurrenceCount

\* C4 witness: rule MO,WE with offset 2, now Tuesday 10:00, cursor on this
\* Wednesday: Wednesday is passed over and next Monday comes first.
C4_Witness ==
    /\ pc = "done"
    /\ now.ts = FromObject(15, 10, 0, DefaultZone).ts
    /\ recurringDays = {<<"MO">>, <<"WE">>}
    /\ \A j \in 1..Len(dayToDeadlineOffset) : dayToDeadlineOffset[j].value = 2
    /\ DayOf(cursorStart) = 16
    /\ Len(dates) = OccurrenceCount
    /\ DayOf(dates[1].runDate) = 21
    /\ DayOf(dates[2].runDate) = 23

\* ------------------------------------------------- the records of the text
\* The blocks of the text by the index of their BEGIN line, the record each
\* holds, and the blocks the line loop has passed.
BlockStarts ==
    {k \in 1..Len(text) :
        /\ text[k] = BeginLine
        /\ \E e \in (k + 2)..Len(text) :
               /\ text[e] = EndLine
               /\ \A m \in (k + 1)..(e - 1) : text[m] \notin {BeginLine, EndLine}}

EndOf(k) ==
    LET ends == {e \in (k + 1)..Len(text) : text[e] = EndLine}
    IN  CHOOSE e \in ends : \A f \in ends : e <= f

RECURSIVE FoldProps(_, _)
FoldProps(ev, lines) ==
    IF lines = <<>> THEN ev
    ELSE FoldProps(SetProperty(ev, Head(lines), clock), Tail(lines))

RecordAt(k) == FoldProps(EmptyEvent, SubSeq(text, k + 1, EndOf(k) - 1))

Processed == {k \in BlockStarts : pc # "idle" /\ EndOf(k) < i}

\* The value of the block's first line called name, <<>> when it has none.
RawValue(k, name) == FirstValue(SubSeq(text, k + 1, EndOf(k) - 1), name)

Recurring(r) == IsRecurringEvent(rruleMap, r)

\* The keys a record maps to: those it fills in an empty collection.
KeysOf(r) ==
    IF IsPastOneTime(r, Recurring(r), today) THEN {}
    ELSE LET m == processEvent(r, RawRrule(rruleMap, r), Recurring(r), today, <<>>)
         IN  {m[j].key : j \in 1..Len(m)}

\* The first block of the text, among those passed, that maps to the key.
Owner(key) ==
    LET c == {k \in Processed : key \in KeysOf(RecordAt(k))}
    IN  CHOOSE k \in c : \A h \in c : k <= h

Entries == 1..Len(eventsByDayPattern)
EntryKey(j) == eventsByDayPattern[j].key
Entry(j) == eventsByDayPattern[j].value
OwnerRecord(j) == RecordAt(Owner(EntryKey(j)))

\* The collection changes only at the END line of a block: what holds of it
\* wherever the line loop stands between two blocks, its start and its end
\* included, holds of it throughout.
Parsing == pc = "scan" /\ ~inEvent

\* Today's date in a zone.
TodayIn(zone) == DayOf(NowIn(clock, zone))

\* The first day from d0 on that falls on weekday wd.
NearestFrom(d0, wd) == CHOOSE d \in d0..(d0 + 6) : WeekdayOfDay(d) = wd

\* The weekdays named in a rule.
RuleDays(rule) == {d \in 1..Len(dayNames) : Includes(rule, <<dayNames[d]>>)}

\* The logical id, weekday and time of day of a stored recurring event.
SlotOf(e) ==
    <<IF e.originalUid = <<>> THEN <<>> ELSE SplitFirst(e.originalUid[1], Delimiter),
      EventDay(e),
      e.start.dateTime.hour, e.start.dateTime.minute>>

C6_OneEventPerListedDay ==
    Parsing =>
    /\ \A k \in Processed :
           LET r == RecordAt(k)
               rule == RawRrule(rruleMap, r)
               mine == {j \in Entries : /\ EntryKey(j).kind = "day"
                                        /\ EntryKey(j).id = SplitFirst(r.uid[1], Delimiter)
                                        /\ EntryKey(j).time = TimeKey(r.startDate[1])}
           IN  Recurring(r) /\ rule # <<>> /\ RuleDays(rule[1]) # {} =>
                   /\ Cardinality(mine) = Cardinality(RuleDays(rule[1]))
                   /\ \A d \in RuleDays(rule[1]) :
                          \E j \in mine : EventDay(Entry(j)) = <<<<dayNames[d]>>>>
    /\ \A j \in Entries :
           Entry(j).isRecurring =>
               \E d \in 1..Len(dayNames) : EventDay(Entry(j)) = <<<<dayNames[d]>>>>

\* C6 witness: the rule MO,WE,FR has given three events.
C6_Witness ==
    /\ pc = "parsed"
    /\ \E k \in Processed :
           /\ RawRrule(rruleMap, RecordAt(k)) # <<>>
           /\ Cardinality(RuleDays(RawRrule(rruleMap, RecordAt(k))[1])) = 3
    /\ {EventDay(Entry(j)) : j \in Entries} = {<<<<"MO">>>>, <<<<"WE">>>>, <<<<"FR">>>>}
    /\ Len(eventsByDayPattern) = 3

\* C7: no two stored recurring events share logical id, weekday and time of
\* day, and a passed recurring record with a single-weekday rule has exactly
\* one event for that weekday and time of day.
C7_OneEventPerSlot ==
    Parsing =>
    /\ \A j, h \in Entries :
           Entry(j).isRecurring /\ Entry(h).isRecurring /\ j # h =>
               SlotOf(Entry(j)) # SlotOf(Entry(h))
    /\ \A k \in Processed :
           LET r == RecordAt(k)
               rule == RawRrule(rruleMap, r)
           IN  Recurring(r) /\ rule # <<>> /\ Cardinality(RuleDays(rule[1])) = 1 =>
                   \A d \in RuleDays(rule[1]) :
                       Cardinality({j \in Entries :
                           /\ Entry(j).isRecurring
                           /\ SlotOf(Entry(j)) =
                                  <<SplitFirst(r.uid[1], Delimiter), <<<<dayNames[d]>>>>,
                                    HourOf(r.startDate[1]), MinuteOf(r.startDate[1])>>}) = 1

\* C7 witness: the same single-weekday record was passed twice and one event
\* is stored.
C7_Witness ==
    /\ pc = "parsed"
    /\ \E k, h \in Processed :
           /\ k # h
           /\ SubSeq(text, k, EndOf(k)) = SubSeq(text, h, EndOf(h))
           /\ Recurring(RecordAt(k))
           /\ Cardinality(RuleDays(RawRrule(rruleMap, RecordAt(k))[1])) = 1
    /\ Len(eventsByDayPattern) = 1

\* C8: every stored event carries the summary and unique id of the first
\* record of the text that maps to its key.
C8_FirstRecordWins ==
    Parsing =>
        \A j \in Entries :
            LET first == OwnerRecord(j)
            IN  /\ \E k \in Processed : EntryKey(j) \in KeysOf(RecordAt(k))
                /\ Entry(j).summary = first.summary[1]
                /\ Entry(j).originalUid = first.uid

\* C8 witness: two passed records with different summaries map to one key.
C8_Witness ==
    /\ pc = "parsed"
    /\ \E j \in Entries : \E k, h \in Processed :
           /\ k < h
           /\ EntryKey(j) \in KeysOf(RecordAt(k)) \cap KeysOf(RecordAt(h))
           /\ RecordAt(k).summary # RecordAt(h).summary
           /\ Entry(j).summary = RecordAt(k).summary[1]

\* C9: a passed one-time record is missing from the collection exactly when
\* its start day, in its own zone, is before today.
C9_PastOneTimeExcluded ==
    Parsing => \A k \in Processed :
        LET r == RecordAt(k)
            start == r.startDate[1]
        IN  ~Recurring(r) =>
                (MapHas(eventsByDayPattern, OneTimeKey(r.uid, start))
                     <=> ~(DayOf(start) < TodayIn(start.zone)))

\* The offset a block asks for: 2 without the property, else its number.
AskedOffset(k) ==
    IF RawValue(k, "X-PUB-DEADLINE-OFFSET") = <<>> THEN 2
    ELSE DigitsToNat(RawValue(k, "X-PUB-DEADLINE-OFFSET")[1], 0)

\* The last event handed to the projector that names the weekday.
LastEventOn(dayAbbr) ==
    LET c == {j \in 1..Len(events) : EventDay(events[j]) = <<dayAbbr>>}
    IN  events[CHOOSE j \in c : \A h \in c : h <= j]

\* C10: a stored event has offset 2 when its record has no offset property
\* and the property's number otherwise, 0 included; an occurrence has the
\* offset of the event of its weekday and its deadline lies that many days
\* before its run date.
C10_OffsetDefaultAndZero ==
    /\ Parsing =>
           \A j \in Entries : Entry(j).deadlineOffset = AskedOffset(Owner(EntryKey(j)))
    /\ \A j \in 1..Len(dates) :
           LET e == LastEventOn(DayAbbr(Weekday(dates[j].runDate)))
           IN  /\ dates[j].deadlineOffset = e.deadlineOffset
               /\ dates[j].submissionDate.ts =
                      dates[j].runDate.ts - e.deadlineOffset * MinutesPerDay

\* C10 witness: the projector returned occurrences of a weekday with offset 0
\* asked for and of a weekday with no offset asked for.
C10_Witness ==
    /\ pc = "done"
    /\ \E j \in Entries :
           /\ RawValue(Owner(EntryKey(j)), "X-PUB-DEADLINE-OFFSET") = <<<<"0">>>>
           /\ Entry(j).deadlineOffset = 0
    /\ \E j \in Entries :
           /\ RawValue(Owner(EntryKey(j)), "X-PUB-DEADLINE-OFFSET") = <<>>
           /\ Entry(j).deadlineOffset = 2
    /\ \E j, h \in 1..Len(dates) :
           /\ dates[j].deadlineOffset = 0
           /\ dates[j].submissionDate = dates[j].runDate
           /\ dates[h].deadlineOffset = 2

\* ------------------------------------------------------ the cursor's start
\* The start day of an event handed to the projector, in the projector's zone.
StartDayOf(event) == DayOf(FromISO(event.start.dateTime, events[1].start.timeZone))

\* The events handed to the projector whose start can be read.
Dated == {j \in 1..Len(events) : events[j].start.dateTime.valid}

Later(a, b) == IF a > b THEN a ELSE b

RECURSIVE ProjectFrom(_, _, _, _, _)
ProjectFrom(cursor, days, offsets, at, acc) ==
    IF ~LoopCondition(Len(acc)) \/ DayOf(cursor) >= MaxDay THEN acc
    ELSE LET dayAbbr == DayAbbr(Weekday(cursor))
             runDate == RunDate(cursor)
             deadlineOffset == OffsetFor(offsets, dayAbbr)
             submissionDate == SubmissionDate(runDate, deadlineOffset)
             accepted == dayAbbr \in days /\ Accepts(submissionDate, at)
         IN  ProjectFrom(NextCursor(cursor, accepted), days, offsets, at,
                 IF accepted
                 THEN Append(acc, [runDate |-> runDate,
                                   submissionDate |-> submissionDate,
                                   timezone |-> at.zone,
                                   deadlineOffset |-> deadlineOffset])
                 ELSE acc)

\* generateNext5FromEvents(events) at instant nowTs.
Project(evs, nowTs) ==
    ProjectFrom(StartCursor(evs, nowTs), RecurringDays(evs),
                DayToDeadlineOffset(evs, <<>>),
                NowIn(nowTs, evs[1].start.timeZone), <<>>)

\* The same events in the opposite order.
Reverse(seq) == [j \in 1..Len(seq) |-> seq[Len(seq) + 1 - j]]

\* The walk of the handler returns what the function gives.
WalkIsProject == pc = "done" /\ events # <<>> => dates = Project(events, clock)

\* The projector has been handed recurring events only, on a machine in the
\* events' zone, and is about to take its first step.
WalkStarts ==
    /\ pc = "walk" /\ dates = <<>> /\ currentDate = cursorStart
    /\ machineZone = now.zone
    /\ \A j \in 1..Len(events) : events[j].isRecurring

\* C12: the projector returns the same occurrences for the resolved events in
\* the opposite order as for the order it was handed.
C12_OrderIrrelevant ==
    WalkStarts => Project(Reverse(events), clock) = Project(events, clock)

\* Noon of today in the projector's zone.
NoonToday == FromObject(TodayIn(now.zone), 12, 0, now.zone)

\* C13: every collected occurrence runs at 12:00 local time of a governed day
\* in the events' zone; its deadline is at 12:00 local time as many calendar
\* days earlier as that weekday's offset; with offset 0 the deadline is the
\* run timestamp, and today's date is among the occurrences exactly while now
\* is before noon.
C13_NoonRunAndDeadline ==
    /\ \A j \in 1..Len(dates) :
           LET run == dates[j].runDate
               due == dates[j].submissionDate
               off == OffsetFor(dayToDeadlineOffset, DayAbbr(Weekday(run)))
           IN  /\ run.zone = events[1].start.timeZone /\ due.zone = run.zone
               /\ HourOf(run) = 12 /\ MinuteOf(run) = 0
               /\ DayAbbr(Weekday(run)) \in recurringDays
               /\ dates[j].deadlineOffset = off
               /\ DayOf(due) = DayOf(run) - off
               /\ HourOf(due) = 12 /\ MinuteOf(due) = 0
               /\ off = 0 => due = run
               /\ (off = 0 /\ DayOf(run) = TodayIn(now.zone)) => now.ts < NoonToday.ts
    /\ (/\ pc = "done" /\ response = "dates"
        /\ DayOf(cursorStart) = TodayIn(now.zone)
        /\ DayAbbr(WeekdayOfDay(TodayIn(now.zone))) \in recurringDays
        /\ OffsetFor(dayToDeadlineOffset, DayAbbr(WeekdayOfDay(TodayIn(now.zone)))) = 0)
       => (now.ts < NoonToday.ts <=> DayOf(dates[1].runDate) = TodayIn(now.zone))

\* C13 witness: before noon, with offset 0 on today's weekday, the first
\* occurrence runs today at noon and is due at the same instant; the next one
\* runs a week later.
C13_Witness ==
    /\ pc = "done"
    /\ response = "dates"
    /\ now.ts < NoonToday.ts
    /\ dates[1].runDate = NoonToday
    /\ dates[1].submissionDate = NoonToday
    /\ dates[1].deadlineOffset = 0
    /\ recurringDays = {DayAbbr(WeekdayOfDay(TodayIn(now.zone)))}
    /\ DayOf(dates[2].runDate) = TodayIn(now.zone) + 7

\* C14: the collected occurrences are in strictly increasing order of run
\* timestamp, so no run timestamp appears twice.
C14_RunDatesIncrease ==
    /\ \A j \in 1..(Len(dates) - 1) : dates[j].runDate.ts < dates[j + 1].runDate.ts
    /\ \A j, h \in 1..Len(dates) : j # h => dates[j].runDate # dates[h].runDate

\* C14 witness: two of the events name the same weekday and five occurrences
\* were returned.
C14_Witness ==
    /\ pc = "done"
    /\ Len(dates) = OccurrenceCount
    /\ \E j, h \in 1..Len(events) :
           j # h /\ EventDay(events[j]) # <<>> /\ EventDay(events[j]) = EventDay(events[h])

\* The recurring events handed to the projector do not all carry one timezone.
AmbiguousTimezone ==
    \E j, h \in 1..Len(events) :
        /\ events[j].isRecurring /\ events[h].isRecurring
        /\ events[j].start.timeZone # events[h].start.timeZone

\* C15: when the recurring events handed to the projector disagree on the
\* timezone, no occurrence is computed and no list of dates is answered.
C15_AmbiguousTimezoneReported ==
    (pc \in {"walk", "done"} /\ AmbiguousTimezone) =>
        dates = <<>> /\ response # "dates"

\* C16: the parse is never aborted by a block: the line loop goes on after
\* every END line, whatever the record of the block holds.
C16_ParseNeverAborts == pc # "threw"

\* ------------------------------------------------ the parse as a function
\* The line loop of parseIcsContent over the remaining lines: the collection
\* at its end, or threw when processEvent throws.
RECURSIVE ScanFrom(_, _, _, _, _)
ScanFrom(lines, current, inside, map, rules) ==
    IF lines = <<>> THEN [threw |-> FALSE, map |-> map]
    ELSE LET line == Head(lines)
         IN  IF line = BeginLine
             THEN ScanFrom(Tail(lines), <<EmptyEvent>>, TRUE, map, rules)
             ELSE IF line = EndLine /\ inside
             THEN IF current # <<>> /\ HasKeys(current[1])
                  THEN LET ev == current[1]
                           rawRrule == RawRrule(rules, ev)
                           isRecurringEvent == IsRecurringEvent(rules, ev)
                       IN  IF IsPastOneTime(ev, isRecurringEvent, today)
                           THEN ScanFrom(Tail(lines), <<>>, FALSE, map, rules)
                           ELSE IF ProcessEventThrows(ev)
                           THEN [threw |-> TRUE, map |-> map]
                           ELSE ScanFrom(Tail(lines), <<>>, FALSE,
                                    processEvent(ev, rawRrule, isRecurringEvent, today, map),
                                    rules)
                  ELSE ScanFrom(Tail(lines), <<>>, FALSE, map, rules)
             ELSE IF inside
             THEN ScanFrom(Tail(lines), <<SetProperty(current[1], line, clock)>>, TRUE,
                           map, rules)
             ELSE ScanFrom(Tail(lines), current, inside, map, rules)

\* parseIcsContent(icsContent) today.
parseIcsContent(icsContent) ==
    ScanFrom(icsContent, <<>>, FALSE, <<>>, BuildRruleMap(SplitBlocks(icsContent), <<>>))

\* The parse of the model returns what the function gives.
ParseIsFunction ==
    /\ pc = "parsed" =>
           /\ ~parseIcsContent(text).threw
           /\ parsedEvents = MapValues(parseIcsContent(text).map)
    /\ pc = "threw" => parseIcsContent(text).threw

\* The lines of a text that stand inside a block, BEGIN and END lines included.
RECURSIVE InsideLines(_, _)
InsideLines(lines, inside) ==
    IF lines = <<>> THEN <<>>
    ELSE LET line == Head(lines)
         IN  IF line = BeginLine THEN <<line>> \o InsideLines(Tail(lines), TRUE)
             ELSE IF line = EndLine /\ inside
             THEN <<line>> \o InsideLines(Tail(lines), FALSE)
             ELSE IF inside THEN <<line>> \o InsideLines(Tail(lines), TRUE)
             ELSE InsideLines(Tail(lines), FALSE)

\* The resolved events of a text, as a set.
ResolvedSet(icsContent) ==
    LET m == parseIcsContent(icsContent).map
    IN  {m[j].value : j \in 1..Len(m)}

\* C17, on a machine in the default zone: the resolved events of the text are
\* those of the text without its lines outside every block.
C17_OutsideLinesIgnored ==
    (pc = "parsed" /\ machineZone = DefaultZone) =>
        {parsedEvents[j] : j \in 1..Len(parsedEvents)}
            = ResolvedSet(InsideLines(text, FALSE))

\* The stored one-time events and the instant each starts at.
OneTimeEntries == {j \in Entries : ~Entry(j).isRecurring}
StartInstant(e) == FromISO(e.start.dateTime, e.start.timeZone).ts

\* C18 as stated: no two stored one-time events share the part of the unique
\* id before the delimiter and the start instant.
C18_OneTimePerLogicalIdAndInstant ==
    Parsing =>
        \A j, h \in OneTimeEntries :
            (/\ Entry(j).originalUid # <<>> /\ Entry(h).originalUid # <<>>
             /\ SplitFirst(Entry(j).originalUid[1], Delimiter)
                    = SplitFirst(Entry(h).originalUid[1], Delimiter)
             /\ StartInstant(Entry(j)) = StartInstant(Entry(h)))
            => j = h

\* C18 as amended: no two stored one-time events share the whole unique id
\* and the start instant, and every passed one-time record that is not past
\* has exactly one stored event of its whole unique id and start instant.
C18_OneTimePerUidAndInstant ==
    Parsing =>
        /\ \A j, h \in OneTimeEntries :
               (/\ Entry(j).originalUid = Entry(h).originalUid
                /\ StartInstant(Entry(j)) = StartInstant(Entry(h)))
               => j = h
        /\ \A k \in Processed :
               LET r == RecordAt(k)
               IN  (/\ r.startDate # <<>>
                    /\ ~Recurring(r)
                    /\ ~IsPastOneTime(r, FALSE, today))
                   => Cardinality({j \in OneTimeEntries :
                          /\ Entry(j).originalUid = r.uid
                          /\ StartInstant(Entry(j)) = r.startDate[1].ts}) = 1

\* C18 witness: two one-time events of one base id and one start instant are
\* stored, under two unique ids.
C18_Witness ==
    /\ pc = "parsed"
    /\ \E j, h \in OneTimeEntries :
           /\ Entry(j).originalUid # Entry(h).originalUid
           /\ SplitFirst(Entry(j).originalUid[1], Delimiter)
                  = SplitFirst(Entry(h).originalUid[1], Delimiter)
           /\ StartInstant(Entry(j)) = StartInstant(Entry(h))

\* The publication id of a resolved event: its unique id up to the delimiter.
PublicationId(event) == SplitFirst(event.originalUid[1], Delimiter)

\* The request has been filtered.
Filtered == pc \in {"walk", "done"}

\* C19 as stated: every event handed to the projector has the requested id as
\* its publication id.
C19_SelectedByEqualId ==
    Filtered => \A j \in 1..Len(events) : PublicationId(events[j]) = selected

\* C19 as amended: the events handed to the projector are the resolved events
\* that have a unique id whose publication id contains the requested id,
\* the first DisplayLimit of them.
C19_SelectedByContainedId ==
    Filtered =>
        LET hits == {h \in 1..Len(parsedEvents) :
                        /\ Truthy(parsedEvents[h].originalUid)
                        /\ Includes(PublicationId(parsedEvents[h]), selected)}
        IN  /\ \A j \in 1..Len(events) : \E h \in hits : events[j] = parsedEvents[h]
            /\ Len(events) = IF Cardinality(hits) < 50 THEN Cardinality(hits) ELSE 50

\* C19 witness: an event of a publication whose id contains the requested id
\* and is longer has been handed to the projector.
C19_Witness ==
    /\ Filtered
    /\ \E j \in 1..Len(events) :
           /\ PublicationId(events[j]) # selected
           /\ Includes(PublicationId(events[j]), selected)

\* ------------------------------------------------------------ the cache
\* What every getCalendar call has done: one that found no entry under the
\* calendar's key made exactly one fetch-and-parse and, when that gave a
\* result, stored and returned it; one that found an entry returned that
\* entry and made no fetch; an entry is always the result of a fetch for its
\* key.
CallsGetOrPopulate ==
    /\ \A c \in Callers :
           LET call == callers[c]
           IN  /\ call.pc = "returned" /\ call.found = <<>> =>
                      /\ call.fetched = 1
                      /\ call.stored = call.result /\ call.result # <<>>
                      /\ call.result[1].name = extractIcsName(call.url[1])
                      /\ call.result[1].url = call.url[1]
               /\ call.pc = "returned" /\ call.found # <<>> =>
                      /\ call.fetched = 0 /\ call.stored = <<>>
                      /\ call.result = call.found
               /\ call.pc = "failed" =>
                      call.found = <<>> /\ call.fetched = 1 /\ call.stored = <<>>
               /\ call.pc = "fetching" => call.found = <<>> /\ call.fetched = 0
    /\ \A u \in Urls :
           cache[CacheKey(u)] # <<>> => cache[CacheKey(u)][1].name = extractIcsName(u)

\* The step that stores: when a call's fetch resolves, the entry under its
\* calendar's key becomes the result the call returns; no other step of a
\* call changes the cache.
StoresUnderKey ==
    \A c \in Callers :
        /\ (callers[c].pc = "fetching" /\ callers'[c].pc = "returned") =>
               cache'[CacheKey(callers[c].url[1])] = callers'[c].result
        /\ (callers[c].pc = "idle" /\ callers'[c].pc # "idle") => cache' = cache

\* C20: get-or-populate.  A getCalendar call that finds no entry under the
\* calendar's key makes exactly one fetch-and-parse, stores the result under
\* that key and returns it; a call that finds an entry returns it without a
\* fetch.
C20_GetOrPopulate == []CallsGetOrPopulate /\ [][StoresUnderKey]_vars

\* C20 witness: one caller missed, fetched and stored; the content behind the
\* URL has changed since; a later call of the other caller for the same
\* calendar returned the stored result without a fetch.
C20_Witness ==
    \E c, d \in Callers :
        /\ c # d
        /\ callers[c].pc = "returned" /\ callers[c].found = <<>>
        /\ callers[d].pc = "returned" /\ callers[d].found # <<>>
        /\ callers[d].url = callers[c].url
        /\ callers[d].result = callers[c].result
        /\ callers[d].fetched = 0
        /\ remote[callers[c].url[1]] # callers[c].result[1].content

\* ---------------------------------------------------------------------- C21
\* C21: a stored event is recurring exactly when the record it comes from has
\* a rule of its own or the rule table has an entry for the record's unique id
\* or for its logical id; and once a record without a rule of its own whose
\* logical id is in the rule table has been passed, the collection holds a
\* recurring event of its logical id and time of day for every weekday the
\* table's rule lists.
C21_RecurringIffRuleOrTableEntry ==
    Parsing =>
    /\ \A j \in Entries :
           LET r == OwnerRecord(j)
               inTable == /\ r.uid # <<>>
                          /\ \/ MapHas(rruleMap, r.uid[1])
                             \/ MapHas(rruleMap, SplitFirst(r.uid[1], Delimiter))
           IN  Entry(j).isRecurring <=> (r.rrule # <<>> \/ inTable)
    /\ \A k \in Processed :
           LET r == RecordAt(k)
               base == SplitFirst(r.uid[1], Delimiter)
           IN  (r.uid # <<>> /\ r.rrule = <<>> /\ MapHas(rruleMap, base)) =>
                   \A d \in RuleDays(MapGet(rruleMap, base)[1]) :
                       \E j \in Entries :
                           /\ Entry(j).isRecurring
                           /\ EntryKey(j).kind = "day"
                           /\ EntryKey(j).id = base
                           /\ EntryKey(j).time = TimeKey(r.startDate[1])
                           /\ EventDay(Entry(j)) = <<<<dayNames[d]>>>>

\* A record without a unique id is stored as recurring by its own rule, which
\* the rule table does not hold.
OwnRuleOnlyStored ==
    /\ pc = "parsed"
    /\ rruleMap = <<>>
    /\ \E j \in Entries :
           /\ Entry(j).isRecurring
           /\ OwnerRecord(j).rrule # <<>>
           /\ OwnerRecord(j).uid = <<>>

\* C21 witness: a record without a rule of its own is stored as recurring
\* under a weekday of the rule another block of its logical id carries.
C21_Witness ==
    /\ pc = "parsed"
    /\ \E j \in Entries :
           /\ Entry(j).isRecurring
           /\ OwnerRecord(j).rrule = <<>>
           /\ OwnerRecord(j).uid # <<>>
           /\ MapHas(rruleMap, SplitFirst(OwnerRecord(j).uid[1], Delimiter))
           /\ EventDay(Entry(j)) = <<<<"MO">>>>
\* ---------------------------------------------------------------------- C22
\* The start or end line the line loop has just read into the open block.
DateLineRead ==
    /\ pc = "scan"
    /\ inEvent
    /\ i > 1
    /\ text[i - 1].name \in {"DTSTART", "DTEND"}

\* A date value of the form DDTHHMM, with or without a trailing Z.
DayTimeValue(v) ==
    /\ Len(v) \in {7, 8}
    /\ v[3] = "T"
    /\ \A n \in {1, 2, 4, 5, 6, 7} : IsDigit(v[n])
    /\ Len(v) = 8 => v[8] = "Z"

\* The minutes since day 0 that the fields of such a value spell.
WallClock(v) ==
    DigitsToNat(SubSeq(v, 1, 2), 0) * MinutesPerDay
        + DigitsToNat(SubSeq(v, 4, 5), 0) * 60 + DigitsToNat(SubSeq(v, 6, 7), 0)

\* The zone of a line by precedence: zone parameter, trailing Z, default.
ZoneByPrecedence(line) ==
    IF line.tzid # <<>> THEN line.tzid[1]
    ELSE IF line.value[Len(line.value)] = "Z" THEN UTC
    ELSE DefaultZone

\* What the open block holds for the line just read: its zone and its instant.
ZoneRead ==
    IF text[i - 1].name = "DTSTART" THEN currentEvent[1].startTimezone[1]
    ELSE currentEvent[1].endTimezone[1]
InstantRead ==
    IF text[i - 1].name = "DTSTART" THEN currentEvent[1].startDate[1].ts
    ELSE currentEvent[1].endDate[1].ts

\* C22 as stated: the zone of a start or end line is its zone parameter,
\* else UTC for a trailing Z, else the default zone, and the instant is the
\* value's date and time read in that same zone.
C22_ReadInChosenZone ==
    (DateLineRead /\ DayTimeValue(text[i - 1].value)) =>
        /\ ZoneRead = ZoneByPrecedence(text[i - 1])
        /\ InstantRead =
               WallClock(text[i - 1].value) - ZoneOffset(ZoneByPrecedence(text[i - 1]))

\* C22 as amended: the zone kept for the line follows the precedence, but the
\* instant is the value's date and time read in UTC whenever the value ends
\* with Z, zone parameter or not, and in the kept zone otherwise.
C22_TrailingZReadInUtc ==
    (DateLineRead /\ DayTimeValue(text[i - 1].value)) =>
        LET line == text[i - 1]
            readIn == IF line.value[Len(line.value)] = "Z" THEN UTC
                      ELSE ZoneByPrecedence(line)
        IN  /\ ZoneRead = ZoneByPrecedence(line)
            /\ InstantRead = WallClock(line.value) - ZoneOffset(readIn)

\* C22 witness: a start with the zone parameter America/New_York and the
\* value 14:00 with a trailing Z is kept as 14:00 UTC under the zone
\* America/New_York.
C22_Witness ==
    /\ DateLineRead
    /\ text[i - 1] = ZonedLine("DTSTART", DefaultZone, Thu1400Z)
    /\ currentEvent[1].startTimezone = <<DefaultZone>>
    /\ currentEvent[1].startDate[1].ts = WallClock(Thu1400Z) - ZoneOffset(UTC)
\* ---------------------------------------------------------------------- C23
\* The governing rule of a record lists no weekday.
NoWeekdayList(rule) == rule = <<>> \/ MatchByday(rule[1]) = <<>>

\* C23: once a recurring record with a start, whose governing rule lists no
\* weekday, has been passed, the record by itself maps to exactly one event,
\* the collection holds an event under that key, and the descriptor of both
\* names the weekday of the stored start date.
C23_OwnWeekdayWithoutList ==
    Parsing =>
    \A k \in Processed :
        LET r == RecordAt(k)
            rule == RawRrule(rruleMap, r)
            alone == processEvent(r, rule, TRUE, today, <<>>)
        IN  (Recurring(r) /\ r.startDate[1].valid /\ NoWeekdayList(rule)) =>
                /\ Len(alone) = 1
                /\ EventDay(alone[1].value) =
                       <<DayAbbr(WeekdayOfDay(alone[1].value.start.dateTime.day))>>
                /\ \E j \in Entries :
                       /\ EntryKey(j) = alone[1].key
                       /\ EventDay(Entry(j)) =
                              <<DayAbbr(WeekdayOfDay(Entry(j).start.dateTime.day))>>

\* C23 witness: a record that started last Sunday under a rule without a
\* weekday list is stored once, moved to a later Sunday and named SU.
C23_Witness ==
    /\ pc = "parsed"
    /\ \E j \in Entries :
           /\ Entry(j).isRecurring
           /\ NoWeekdayList(RawRrule(rruleMap, OwnerRecord(j)))
           /\ Entry(j).start.dateTime.day > DayOf(OwnerRecord(j).startDate[1])
           /\ WeekdayOfDay(Entry(j).start.dateTime.day) = 7
           /\ EventDay(Entry(j)) = <<<<"SU">>>>
\* ---------------------------------------------------------------------- C24
\* C24: a step of the line loop leaves every stored entry as it is, under the
\* same key and at the same place, and may only append entries.
C24_CollectionOnlyGrows ==
    [][pc = "scan" =>
          /\ Len(eventsByDayPattern') >= Len(eventsByDayPattern)
          /\ \A j \in 1..Len(eventsByDayPattern) :
                 eventsByDayPattern'[j] = eventsByDayPattern[j]]_vars

\* C24 witness: a later record whose keys were all taken by an earlier one
\* has been passed, and the collection holds the earlier record's events.
C24_Witness ==
    /\ pc = "parsed"
    /\ \E k, h \in Processed :
           /\ k < h
           /\ KeysOf(RecordAt(h)) # {}
           /\ KeysOf(RecordAt(h)) \subseteq KeysOf(RecordAt(k))
           /\ RecordAt(h) # RecordAt(k)
           /\ Len(eventsByDayPattern) = Cardinality(KeysOf(RecordAt(k)))
\* ---------------------------------------------------------------------- C25
\* The pieces of the text, cut at the BEGIN lines, that carry a unique id of
\* the logical id and a rule; the rule of the last of them.
RuleBlocksOf(base) ==
    LET blocks == SplitBlocks(text)
    IN  {n \in 1..Len(blocks) :
            /\ FirstValue(blocks[n], "UID") # <<>>
            /\ SplitFirst(FirstValue(blocks[n], "UID")[1], Delimiter) = base
            /\ FirstValue(blocks[n], "RRULE") # <<>>}
LastRuleOf(base) ==
    LET n == CHOOSE n \in RuleBlocksOf(base) : \A m \in RuleBlocksOf(base) : m <= n
    IN  FirstValue(SplitBlocks(text)[n], "RRULE")[1]

\* C25: the rule table has at most one entry per logical id, holding the rule
\* of the last block of that id that carries one; and once a recurring record
\* of such an id has been passed, its own rule or not, the weekdays it maps
\* to are those listed by that last rule, each with an event in the collection.
C25_LastRuleGoverns ==
    Parsing =>
    /\ \A a, b \in 1..Len(rruleMap) : rruleMap[a].key = rruleMap[b].key => a = b
    /\ \A a \in 1..Len(rruleMap) :
           /\ RuleBlocksOf(rruleMap[a].key) # {}
           /\ rruleMap[a].value = LastRuleOf(rruleMap[a].key)
    /\ \A k \in Processed :
           LET r == RecordAt(k)
               base == SplitFirst(r.uid[1], Delimiter)
               alone == processEvent(r, RawRrule(rruleMap, r), Recurring(r), today, <<>>)
           IN  (r.uid # <<>> /\ RuleBlocksOf(base) # {}
                    /\ RuleDays(LastRuleOf(base)) # {}) =>
                   /\ MapGet(rruleMap, base) = <<LastRuleOf(base)>>
                   /\ {EventDay(alone[j].value) : j \in 1..Len(alone)} =
                          {<<<<dayNames[d]>>>> : d \in RuleDays(LastRuleOf(base))}
                   /\ \A j \in 1..Len(alone) : MapHas(eventsByDayPattern, alone[j].key)

\* C25 witness: a record whose own rule lists MO,WE is stored under FR, which
\* only the rule of a later block of its logical id lists.
C25_Witness ==
    /\ pc = "parsed"
    /\ \E j \in Entries :
           LET r == OwnerRecord(j)
           IN  /\ r.rrule # <<>>
               /\ r.uid # <<>>
               /\ RuleDays(r.rrule[1]) = {2, 4}
               /\ Cardinality(RuleBlocksOf(SplitFirst(r.uid[1], Delimiter))) = 2
               /\ EventDay(Entry(j)) = <<<<"FR">>>>
               /\ Entry(j).originalUid = r.uid
\* ---------------------------------------------------------------------- C26
\* C26: on a machine in the default zone, every stored recurring event that
\* comes from expanding a rule that lists several weekdays starts on the
\* weekday its descriptor names.
C26_StartOnNamedWeekday ==
    (Parsing /\ machineZone = DefaultZone) =>
        \A j \in Entries :
            LET rule == RawRrule(rruleMap, OwnerRecord(j))
            IN  (/\ Entry(j).isRecurring
                 /\ rule # <<>>
                 /\ Cardinality(RuleDays(rule[1])) > 1) =>
                    EventDay(Entry(j)) =
                        <<DayAbbr(WeekdayOfDay(Entry(j).start.dateTime.day))>>
\* ---------------------------------------------------------------------- C27
\* The BEGIN and END lines among the lines the loop has read.
BeginsRead == {k \in 1..(i - 1) : k <= Len(text) /\ text[k] = BeginLine}
EndsRead == {k \in 1..(i - 1) : k <= Len(text) /\ text[k] = EndLine}

\* The records handed to processEvent so far are no more than the BEGIN lines
\* and no more than the END lines read.
HandedWithinMarkers ==
    /\ futureEvents <= Cardinality(BeginsRead)
    /\ futureEvents <= Cardinality(EndsRead)
    /\ totalProcessed <= Cardinality(EndsRead)

\* One iteration of the line loop, by the line it reads.
ScansAsTwoStates ==
    (pc = "scan" /\ i <= Len(text)) =>
        /\ futureEvents' # futureEvents =>
               /\ text[i] = EndLine
               /\ inEvent
               /\ currentEvent # <<>> /\ currentEvent[1] # EmptyEvent
               /\ futureEvents' = futureEvents + 1
        /\ eventsByDayPattern' # eventsByDayPattern => futureEvents' = futureEvents + 1
        /\ text[i] = BeginLine =>
               /\ inEvent' /\ currentEvent' = <<EmptyEvent>>
               /\ UNCHANGED <<totalProcessed, futureEvents, pastEvents, eventsByDayPattern>>
        /\ (text[i] = EndLine /\ ~inEvent) =>
               UNCHANGED <<inEvent, currentEvent, totalProcessed, futureEvents,
                           pastEvents, eventsByDayPattern>>
        /\ (text[i] = EndLine /\ inEvent) => ~inEvent'
        /\ (text[i] \notin {BeginLine, EndLine}) => inEvent' = inEvent

\* C27: the line loop is a two-state machine: a record is handed to
\* processEvent only at an END line read while a block is open that has
\* collected a property; a BEGIN line opens a block with no property, also
\* when one is open; an END line read with no open block changes nothing; and
\* the records handed on never outnumber the BEGIN lines or the END lines read.
C27_TwoStateScan == []HandedWithinMarkers /\ [][ScansAsTwoStates]_vars

\* C27 witness: of a block opened twice before its END line only the
\* properties after the second BEGIN line have been handed on.
C27_Witness ==
    /\ pc = "parsed"
    /\ text = NestedBeginBlock
    /\ futureEvents = 1
    /\ Cardinality(BeginsRead) = 2
    /\ Len(eventsByDayPattern) = 1
    /\ Entry(1).summary = <<"M">>
    /\ Entry(1).originalUid = <<UidB>>
\* ---------------------------------------------------------------------- C28
\* A getCalendar call of caller c fails in this step.
Fails(c) == callers[c].pc = "fetching" /\ callers'[c].pc = "failed"

\* Caller c enters getCalendar in this step.
Enters(c) == callers[c].pc = "idle" /\ callers'[c].pc # "idle"

\* C28: the step in which a getCalendar call fails hands the caller the error
\* and no result and leaves every cache entry as it was, that of the failing
\* calendar included; and a call entered while the cache has no entry for its
\* calendar, as after a failure, begins a fetch.
C28_FailureLeavesCache ==
    [][\A c \in Callers :
          /\ Fails(c) =>
                 /\ cache' = cache
                 /\ callers'[c].result = <<>>
                 /\ callers'[c].stored = <<>>
          /\ (Enters(c) /\ cache[CacheKey(callers'[c].url[1])] = <<>>) =>
                 callers'[c].pc = "fetching"]_vars

\* C28 witness: a call has failed while the other caller's fetch of the same
\* calendar is under way; the cache has no entry for that calendar and holds
\* the entry of the other calendar.
C28_Witness ==
    \E c, d \in Callers : \E u \in Urls :
        /\ callers[c].pc = "failed"
        /\ callers[d].pc = "fetching"
        /\ callers[d].url = callers[c].url
        /\ cache[CacheKey(callers[c].url[1])] = <<>>
        /\ u # callers[c].url[1]
        /\ cache[CacheKey(u)] # <<>>

\* ---------------------------------------------------------------------- C29
\* The fetch of caller c completes in this step.
Resolves(c) == callers[c].pc = "fetching" /\ callers'[c].pc = "returned"

\* Both callers have returned from calls for one calendar that found no entry.
BothMissed(c, d) ==
    /\ c # d
    /\ callers[c].pc = "returned" /\ callers[d].pc = "returned"
    /\ callers[c].url = callers[d].url
    /\ callers[c].found = <<>> /\ callers[d].found = <<>>

\* A cached entry is the whole result of one fetch of the calendar of its key.
EntriesAreResults ==
    \A u \in Urls :
        cache[CacheKey(u)] # <<>> =>
            \E x \in Contents : cache[CacheKey(u)] = <<CalendarData(u, x)>>

\* Calls that overlapped on a missing entry have each fetched once and hold
\* the result of their own fetch; the entry, while present, is the result of
\* the later fetch.
OverlapKeepsLast ==
    \A c, d \in Callers :
        BothMissed(c, d) =>
            /\ callers[c].fetched = 1 /\ callers[d].fetched = 1
            /\ callers[c].result = callers[c].stored
            /\ cache[CacheKey(callers[c].url[1])] \in
                   {<<>>, callers[c].result, callers[d].result}
            /\ (/\ cache[CacheKey(callers[c].url[1])] # <<>>
                /\ callers[c].result[1].content = "v1"
                /\ callers[d].result[1].content = "v2") =>
                   cache[CacheKey(callers[c].url[1])] = callers[d].result

\* The step that completes a fetch returns what that fetch read and puts it
\* in the cache, over an entry another call may have put there meanwhile.
CompletionOverwrites ==
    \A c \in Callers :
        Resolves(c) =>
            LET icsUrl == callers[c].url[1]
            IN  /\ callers'[c].result = <<CalendarData(icsUrl, remote[icsUrl])>>
                /\ cache'[CacheKey(icsUrl)] = callers'[c].result
                /\ callers'[c].fetched = callers[c].fetched + 1

\* C29: calls for one calendar that overlap on a missing entry each fetch and
\* return the result of their own fetch, the cache afterwards holds the result
\* of the fetch that completed last, and an entry is at all times the whole
\* result of one fetch.
C29_OverlappingCallsEachFetch ==
    /\ [](EntriesAreResults /\ OverlapKeepsLast)
    /\ [][CompletionOverwrites]_vars

\* C29 witness: two calls for one calendar both found no entry and both
\* fetched; their results differ and the cache holds the later one.
C29_Witness ==
    \E c, d \in Callers :
        /\ BothMissed(c, d)
        /\ callers[c].fetched = 1 /\ callers[d].fetched = 1
        /\ callers[c].result[1].content = "v1"
        /\ callers[d].result[1].content = "v2"
        /\ cache[CacheKey(callers[c].url[1])] = callers[d].result
\* ---------------------------------------------------------------------- C30
\* The secret the gate is to check a request against: that of the app given
\* or found for the request, else the default one; <<>> when neither is set.
SecretFor(g) ==
    LET app == IF g.appId # <<>> THEN g.appId[1]
               ELSE determineIntercomApp(g.secrets, g.req[1])
    IN  IF app \in DOMAIN g.secrets /\ g.secrets[app] # <<>> THEN g.secrets[app]
        ELSE g.secrets.default

\* C30: when verifyIntercomCanvas has run it has either called next() once or
\* sent one response, never both and never neither; it has called next()
\* exactly when the request has a signature header, a secret is configured
\* for it, and the header equals the hex HMAC-SHA256 of the JSON body under
\* that secret; every response it sends has status 401 or 500.
C30_NextOnlyOnValidSignature ==
    gate.pc = "done" =>
        LET request == gate.req[1]
            secret == SecretFor(gate)
        IN  /\ gate.next + Len(gate.sent) = 1
            /\ gate.next = 1 <=>
                   /\ request.signature # <<>>
                   /\ secret # <<>>
                   /\ request.body # <<>>
                   /\ request.signature[1] = HexHmac(secret[1], Stringify(request.body)[1])
            /\ \A n \in 1..Len(gate.sent) : gate.sent[n] \in {401, 500}

\* C30 witness: a request signed under the timeline app's secret has passed,
\* and no response was sent.
C30_Witness ==
    /\ gate.pc = "done"
    /\ gate.next = 1
    /\ gate.sent = <<>>
    /\ gate.app = <<"timeline">>
    /\ gate.secrets.timeline = <<"k2">>
    /\ gate.req[1].signature[1] = HexHmac("k2", Stringify(gate.req[1].body)[1])
====
